---- MODULE Spec2Model ----
(***************************************************************************)
(* A model of ckanutils: the remote store client (CKAN.insert_records and  *)
(* the chunking it relies on), the hash-table ledger and the ds.update     *)
(* workflow of datastorer.py.                                              *)
(***************************************************************************)
EXTENDS Integers, Sequences, FiniteSets, TLC

\* ------------------------------------------------------------------ bounds
\* longest record sequence handed to insert_records directly
MaxLen == 3
\* largest chunksize tried (0 means "all in one batch")
MaxChunk == 2
\* largest `start` tried
MaxStart == 1

\* the values a record can take
Vals == {1, 2}

\* Python's None for an optional integer or hash: the empty sequence;
\* Some(x) is a present value
None == <<>>
Some(x) == <<x>>

RECURSIVE SeqsUpTo(_, _)
SeqsUpTo(n, S) ==
  IF n = 0 THEN {<<>>}
  ELSE LET shorter == SeqsUpTo(n - 1, S)
       IN  shorter \cup {Append(s, x) : s \in {t \in shorter : Len(t) = n - 1}, x \in S}

Min(a, b) == IF a < b THEN a ELSE b

RECURSIVE Flatten(_)
Flatten(ss) == IF ss = <<>> THEN <<>> ELSE Head(ss) \o Flatten(Tail(ss))

\* data rows of the largest remote file (after its header line)
MaxRows == 1
\* number of ds.update runs followed
MaxRuns == 2

\* resource ids: the resources of the filestore, one id the remote does not
\* know, and the ids the remote gives to the resources of the ledger package
Resources == {<<"res", 1>>, <<"res", 2>>}
\* the resources whose file is replaced between runs
Edited == {<<"res", 1>>}
Missing == <<"res", 0>>
HashResources == {<<"hash", k>> : k \in 1..MaxRuns}

\* a file is its sequence of lines; the first line is the header (0), every
\* other line is one data row. The files are the empty file and the files of
\* the header and the data rows 1, ..., n
Bytes == 0..(MaxRows + 1)
\* the file of the resources that are not edited: the header and one data row
\* more than the files of the edited resources have
Unedited == <<0>> \o [k \in 1..(MaxRows + 1) |-> k]
Files == {<<>>} \cup {<<0>> \o [k \in 1..n |-> k] : n \in 0..MaxRows}

VARIABLES
  \* ---- the remote portal
  filestore,   \* the file of every resource
  package,     \* the ledger package: whether it exists, how many times it was
               \* created, and its resources
  datastore,   \* the datastore table of every resource id
  \* ---- the local disk
  tempfiles,   \* the temporary files on disk
  \* ---- one run of datastorer.update
  pc,          \* where the run is
  args,        \* resource_id, force, primary_key, chunksize_rows
  ckan,        \* the CKAN object: hash_table_pack, hash_table_id
  resp,        \* the content of the fetched response `r`
  filepath,    \* the local `filepath`
  old_hash, new_hash, changed, updated,
  calls,       \* the calls of the run that write to the remote, in order: the
               \* function, the resource id and the error raised, if any
  stderr,      \* what the run wrote to standard error
  exit_code,   \* the exit code of the run, None while it runs
  runs,        \* number of runs started
  \* ---- one call of CKAN.insert_records
  ipc,         \* "idle", "loop", "returned", "raised"
  ikwargs,     \* resource_id, method, chunksize, start, stop of the call
  irecords,    \* the records argument
  i,           \* the islice iterator of chunk(): the items not yet consumed
  yielded,     \* chunksize 0: the single chunk has been produced
  count,       \* the local `count`
  batches,     \* the `records` of every datastore_upsert call made, in order
  accepted,    \* how many of those calls the remote accepted
  ierror,      \* the error the last datastore_upsert call raised, None if none
  iresult,     \* the value returned, None while there is none
  iexc,        \* the exception that left the call, None while there is none
  \* ---- one call of a library function or command on its own
  lib,         \* the function called, its arguments, whether it has ended, and
               \* what it returned or raised
  \* ---- history
  rerun        \* whether the run follows at once a run on the same resource
               \* that ended with exit code 0, with the file as that run
               \* found it and force false

rvars == <<filestore, package, datastore>>
uvars == <<pc, args, ckan, resp, filepath, old_hash, new_hash, changed, updated,
           stderr, exit_code, runs>>
ivars == <<ipc, ikwargs, irecords, i, yielded, count, batches, accepted, ierror,
           iresult, iexc>>
vars == <<rvars, tempfiles, uvars, calls, ivars, lib, rerun>>

\* ---------------------------------------------------------------- utils.chunk
\* it.islice(iter(iterable), start, stop)
islice(iterable, start, stop) ==
  LET last == IF stop = None THEN Len(iterable) ELSE Min(stop[1], Len(iterable))
  IN  SubSeq(iterable, start + 1, last)

\* list(it.islice(i, chunksize)): the next chunksize items of the iterator
take(it, chunksize) == SubSeq(it, 1, Min(chunksize, Len(it)))
drop(it, chunksize) == SubSeq(it, Min(chunksize, Len(it)) + 1, Len(it))

\* whether the chunked iterable has one more chunk: takewhile(bool, ...) stops at
\* the first empty list; [list(i)] has exactly one element
has_chunk(it, chunksize, done) ==
  IF chunksize # 0 THEN it # <<>> ELSE ~done

\* a chunking that takes one item too many
next_chunk_over(it, chunksize) ==
  IF chunksize # 0 THEN take(it, chunksize + 1) ELSE it

next_chunk(it, chunksize) ==
  IF chunksize # 0 THEN take(it, chunksize) ELSE it

rest_after_chunk(it, chunksize) ==
  IF chunksize # 0 THEN drop(it, chunksize) ELSE <<>>

\* the whole chunking as a list of lists, for reference in properties
RECURSIVE chunk_from(_, _, _)
chunk_from(it, chunksize, done) ==
  IF has_chunk(it, chunksize, done)
  THEN <<next_chunk(it, chunksize)>> \o chunk_from(rest_after_chunk(it, chunksize), chunksize, TRUE)
  ELSE <<>>

chunk(iterable, chunksize, start, stop) ==
  chunk_from(islice(iterable, start, stop), chunksize, FALSE)


\* ------------------------------------------------- the remote datastore
\* A datastore table as datastore_create leaves it
new_table(fields, primary_key) ==
  [exists |-> TRUE, fields |-> fields, primary_key |-> primary_key, records |-> <<>>]

no_table == [exists |-> FALSE, fields |-> <<>>, primary_key |-> None, records |-> <<>>]

\* one record written by the remote's datastore_upsert with method `method`:
\* 'insert' appends, 'upsert' replaces the row with the same primary key
RECURSIVE write_records(_, _, _, _)
write_records(rows, recs, method, primary_key) ==
  IF recs = <<>> THEN rows
  ELSE LET r == Head(recs)
           same(row) == method = "upsert" /\ primary_key # None
                        /\ row[primary_key[1]] = r[primary_key[1]]
           written == IF \E k \in DOMAIN rows : same(rows[k])
                      THEN [k \in DOMAIN rows |-> IF same(rows[k]) THEN r ELSE rows[k]]
                      ELSE Append(rows, r)
       IN  write_records(written, Tail(recs), method, primary_key)

\* the rows have pairwise different values of the key field
unique_keys(rows, key) ==
  \A j, k \in DOMAIN rows : rows[j][key] = rows[k][key] => j = k

\* the remote accepts a datastore_upsert request: the table exists, 'upsert'
\* needs a table with a primary key, and 'insert' must not repeat a key
upsert_accepted(table, method, recs) ==
  /\ table.exists
  /\ method = "upsert" => table.primary_key # None
  /\ (method = "insert" /\ table.primary_key # None)
       => unique_keys(table.records \o recs, table.primary_key[1])

\* the exceptions datastore_upsert can raise; `message` is err.message, a pair
\* whose second item is the text of the socket error
BrokenPipeError ==
  [type |-> "ConnectionError",
   message |-> <<"Connection aborted.", <<"Errno 32", "Broken pipe">> >>]
ConnectionResetError ==
  [type |-> "ConnectionError",
   message |-> <<"Connection aborted.", <<"Errno 104", "Connection reset by peer">> >>]
ValidationError ==
  [type |-> "ValidationError", message |-> <<"", <<>> >>]

ConnectionErrors == {BrokenPipeError, ConnectionResetError}
RemoteErrors == ConnectionErrors \cup {ValidationError}

\* 'Broken pipe' in err.message[1]
broken_pipe(err) == \E k \in DOMAIN err.message[2] : err.message[2][k] = "Broken pipe"

\* ------------------------------------------------- CKAN.insert_records
\* the start of a call: the kwargs popped and defaulted, count = 1, and the
\* chunk iterator created over islice(records, start, stop)
insert_records_call(resource_id, records, chunksize, method, start, stop) ==
  /\ ipc' = "loop"
  /\ ikwargs' = [resource_id |-> resource_id, method |-> method,
                 chunksize |-> chunksize, start |-> start, stop |-> stop]
  /\ irecords' = records
  /\ i' = islice(records, start, stop)
  /\ yielded' = FALSE
  /\ count' = 1
  /\ batches' = <<>>
  /\ accepted' = 0
  /\ ierror' = None
  /\ iresult' = None
  /\ iexc' = None

\* one iteration of the for loop whose datastore_upsert call succeeds
insert_records_batch ==
  /\ ipc = "loop"
  /\ has_chunk(i, ikwargs.chunksize, yielded)
  /\ LET c == next_chunk(i, ikwargs.chunksize)
         t == datastore[ikwargs.resource_id]
     IN  /\ upsert_accepted(t, ikwargs.method, c)
         /\ datastore' = [datastore EXCEPT ![ikwargs.resource_id].records =
                            write_records(t.records, c, ikwargs.method, t.primary_key)]
         /\ batches' = Append(batches, c)
         /\ accepted' = accepted + 1
         /\ count' = count + Len(c)
  /\ i' = rest_after_chunk(i, ikwargs.chunksize)
  /\ yielded' = TRUE
  /\ calls' = Append(calls, <<"datastore_upsert", ikwargs.resource_id, None>>)
  /\ UNCHANGED <<ipc, ikwargs, irecords, ierror, iresult, iexc>>
  /\ UNCHANGED <<filestore, package, tempfiles, uvars>>
  /\ UNCHANGED <<lib, rerun>>

\* an except clause that takes every connection error for an oversized payload
on_upsert_error_any(err) ==
  IF err.type = "ConnectionError" THEN "return0" ELSE "raise"

\* what the except clause does with a raised error: "return0" or "raise"
on_upsert_error(err) ==
  IF err.type = "ConnectionError" /\ broken_pipe(err) THEN "return0" ELSE "raise"

\* an insert_records that takes back the batches it wrote when a call raises
insert_records_error_rollback(err) ==
  /\ ipc = "loop"
  /\ has_chunk(i, ikwargs.chunksize, yielded)
  /\ batches' = Append(batches, next_chunk(i, ikwargs.chunksize))
  /\ i' = rest_after_chunk(i, ikwargs.chunksize)
  /\ yielded' = TRUE
  /\ ierror' = Some(err)
  /\ IF on_upsert_error(err) = "return0"
     THEN ipc' = "returned" /\ iresult' = Some(0) /\ iexc' = None
     ELSE ipc' = "raised" /\ iresult' = None /\ iexc' = Some(err)
  /\ calls' = Append(calls, <<"datastore_upsert", ikwargs.resource_id, Some(err)>>)
  /\ datastore' = [datastore EXCEPT ![ikwargs.resource_id].records =
                     SubSeq(@, 1, Len(@) - Min(Len(@), Len(Flatten(batches))))]
  /\ UNCHANGED <<ikwargs, irecords, count, accepted>>
  /\ UNCHANGED <<filestore, package, tempfiles, uvars>>
  /\ UNCHANGED <<lib, rerun>>

\* one iteration of the for loop whose datastore_upsert call raises `err`
insert_records_error(err) ==
  /\ ipc = "loop"
  /\ has_chunk(i, ikwargs.chunksize, yielded)
  /\ batches' = Append(batches, next_chunk(i, ikwargs.chunksize))
  /\ i' = rest_after_chunk(i, ikwargs.chunksize)
  /\ yielded' = TRUE
  /\ ierror' = Some(err)
  /\ IF on_upsert_error(err) = "return0"
     THEN ipc' = "returned" /\ iresult' = Some(0) /\ iexc' = None
     ELSE ipc' = "raised" /\ iresult' = None /\ iexc' = Some(err)
  /\ calls' = Append(calls, <<"datastore_upsert", ikwargs.resource_id, Some(err)>>)
  /\ UNCHANGED <<ikwargs, irecords, count, accepted>>
  /\ UNCHANGED <<rvars, tempfiles, uvars>>
  /\ UNCHANGED <<lib, rerun>>

\* the loop is exhausted: return count
insert_records_return ==
  /\ ipc = "loop"
  /\ ~has_chunk(i, ikwargs.chunksize, yielded)
  /\ ipc' = "returned"
  /\ iresult' = Some(count)
  /\ UNCHANGED <<ikwargs, irecords, i, yielded, count, batches, accepted, ierror, iexc>>
  /\ UNCHANGED <<rvars, tempfiles, uvars, calls>>
  /\ UNCHANGED <<lib, rerun>>

\* ------------------------------------------------------- utils.hash_file
\* hasher.update(data): the digest state after the bytes of data; distinct
\* byte strings give distinct states
RECURSIVE hash_update(_, _)
hash_update(h, data) ==
  IF data = <<>> THEN h
  ELSE hash_update(h * (Cardinality(Bytes) + 1) + Head(data) + 1, Tail(data))

\* the `while True` loop: read chunksize bytes until a read returns nothing
RECURSIVE hash_read(_, _, _)
hash_read(h, unread, chunksize) ==
  LET data == take(unread, chunksize)
  IN  IF data = <<>> THEN h
      ELSE hash_read(hash_update(h, data), drop(unread, chunksize), chunksize)

\* a hash_file that reads once: `if` in the place of `while True`
hash_file_one_read(bytes, chunksize) ==
  hash_update(1, IF chunksize # 0 THEN take(bytes, chunksize) ELSE bytes)

hash_file(bytes, chunksize) ==
  IF chunksize # 0 THEN hash_read(1, bytes, chunksize) ELSE hash_update(1, bytes)

CHUNKSIZE_BYTES == 1048576

\* -------------------------------------------------------- utils.read_csv
\* the records the csv reader yields: one per line, the header line first (the
\* DictReader is given the names, so it does not skip the header)
read_csv(file) == [k \in 1..Len(file) |-> [id |-> file[k]]]

\* substring in name: a name is the sequence of the pieces it is made of, and
\* it contains the substring when one of its pieces is that substring
in_name(substring, name) == \E k \in DOMAIN name : name[k] = substring

\* an inference that looks for 'value' before 'date'
field_type_value_first(name, type_cast) ==
  IF type_cast /\ in_name("value", name) THEN "float"
  ELSE IF type_cast /\ in_name("date", name) THEN "date"
  ELSE "text"

\* the if / elif / else of gen_fields
field_type(name, type_cast) ==
  IF type_cast /\ in_name("date", name) THEN "date"
  ELSE IF type_cast /\ in_name("value", name) THEN "float"
  ELSE "text"

\* utils.gen_fields: one field per name
gen_fields(names, type_cast) ==
  [k \in DOMAIN names |-> [id |-> names[k], type |-> field_type(names[k], type_cast)]]

\* ------------------------------------------------------------- the CKAN object
\* CKAN.__init__: package_show of the hash table package, and its first resource
CKAN(pack) ==
  [hash_table_pack |-> pack.exists,
   hash_table_id |-> IF pack.exists /\ pack.resources # <<>>
                     THEN Some(pack.resources[1]) ELSE None]

\* CKAN.get_hash: `item` is the item of the NotFound raised ("" when none is
\* raised), `hash` the value returned
get_hash(c, ds, resource_id) ==
  IF ~c.hash_table_pack THEN [item |-> "package", hash |-> None]
  ELSE IF c.hash_table_id = None THEN [item |-> "resource", hash |-> None]
  ELSE LET t == ds[c.hash_table_id[1]]
           found == SelectSeq(t.records, LAMBDA row : row.datastore_id = resource_id)
       IN  IF ~t.exists THEN [item |-> "datastore", hash |-> None]
           ELSE IF found = <<>> THEN [item |-> "", hash |-> None]
           ELSE [item |-> "", hash |-> Some(found[1].hash)]

\* the remote's datastore_create: a new table, or the existing table with its
\* rows kept and the schema of the request
datastore_create(table, fields, primary_key) ==
  IF table.exists
  THEN [table EXCEPT !.fields = fields, !.primary_key = primary_key]
  ELSE new_table(fields, primary_key)

\* the remote accepts a datastore_create: a primary key needs unique rows
create_accepted(table, primary_key) ==
  (table.exists /\ primary_key # None) => unique_keys(table.records, primary_key[1])

\* ------------------------------------------------------ datastorer.update
\* no library function is called on its own
no_call == lib = [op |-> "none", arg |-> <<>>, done |-> FALSE, ret |-> <<>>]

\* no run of the workflow has started
no_run ==
  /\ pc = "idle"
  /\ args = [resource_id |-> Missing, force |-> FALSE, primary_key |-> None,
             chunksize_rows |-> 0]
  /\ ckan = [hash_table_pack |-> FALSE, hash_table_id |-> None]
  /\ resp = <<>>
  /\ filepath = None
  /\ old_hash = None /\ new_hash = None
  /\ changed = FALSE /\ updated = FALSE
  /\ calls = <<>>
  /\ stderr = <<>>
  /\ exit_code = None
  /\ runs = 0
  /\ rerun = FALSE

insert_idle ==
  /\ ipc' = "idle"
  /\ ikwargs' = [resource_id |-> Missing, method |-> "insert", chunksize |-> 0,
                 start |-> 0, stop |-> None]
  /\ irecords' = <<>> /\ i' = <<>> /\ yielded' = FALSE /\ count' = 1
  /\ batches' = <<>> /\ accepted' = 0
  /\ ierror' = None /\ iresult' = None /\ iexc' = None

\* the finally clause (unlink(filepath) if filepath), then the process ends
\* with exit code `code` after writing `message` to standard error
finish(code, message) ==
  /\ tempfiles' = IF filepath # None THEN tempfiles \ {filepath[1]} ELSE tempfiles
  /\ pc' = "done"
  /\ exit_code' = Some(code)
  /\ stderr' = IF message = "" THEN stderr ELSE Append(stderr, message)

\* the command is run again at once: the run before it was on the same
\* resource and ended with exit code 0, the file of the resource is the file
\* that run downloaded, and force is false
is_rerun(resource_id, force) ==
  /\ pc = "done" /\ exit_code = Some(0)
  /\ ~force
  /\ resource_id = args.resource_id
  /\ filestore[resource_id] = resp

\* the command starts: ckan = api.CKAN(**ckan_kwargs)
update_start(resource_id, force, primary_key, chunksize_rows) ==
  /\ pc \in {"idle", "done"}
  /\ runs < MaxRuns
  /\ runs' = runs + 1
  /\ args' = [resource_id |-> resource_id, force |-> force,
              primary_key |-> primary_key, chunksize_rows |-> chunksize_rows]
  /\ ckan' = CKAN(package)
  /\ pc' = "fetch_resource"
  /\ resp' = <<>> /\ filepath' = None
  /\ old_hash' = None /\ new_hash' = None
  /\ changed' = FALSE /\ updated' = FALSE
  /\ calls' = <<>> /\ stderr' = <<>> /\ exit_code' = None
  /\ insert_idle
  /\ UNCHANGED <<rvars, tempfiles>>
  /\ rerun' = is_rerun(resource_id, force)
  /\ UNCHANGED lib

\* ckan.fetch_resource returns (r, filepath): the temporary file is created
\* and the download written to it
update_fetch_resource ==
  /\ pc = "fetch_resource"
  /\ args.resource_id \in DOMAIN filestore
  /\ tempfiles' = tempfiles \cup {runs}
  /\ filepath' = Some(runs)
  /\ resp' = filestore[args.resource_id]
  /\ pc' = "get_hash"
  /\ UNCHANGED <<rvars, args, ckan, old_hash, new_hash, changed, updated, stderr,
                 exit_code, runs, calls, ivars>>
  /\ UNCHANGED <<lib, rerun>>

\* the errors fetch_resource can end with for the resource
fetch_errors(resource_id) ==
  IF resource_id \in DOMAIN filestore THEN {"NotAuthorized", "Exception"}
  ELSE {"NotFound"}

\* the temporary files on disk once fetch_resource has raised: the default
\* of `filepath` (utils.get_temp_filepath()) is created before resource_show
fetch_failed_tempfiles(files, path) == files \cup {path}

\* an except clause that writes the error and lets the run go on
update_fetch_failed_goes_on(err) ==
  /\ pc = "fetch_resource"
  /\ err \in fetch_errors(args.resource_id)
  /\ tempfiles' = fetch_failed_tempfiles(tempfiles, runs)
  /\ filepath' = None
  /\ stderr' = Append(stderr, err)
  /\ pc' = "get_hash"
  /\ UNCHANGED <<rvars, args, ckan, resp, old_hash, new_hash, changed, updated,
                 exit_code, runs, calls, ivars>>
  /\ UNCHANGED <<lib, rerun>>

\* ckan.fetch_resource raises: both except clauses write the error, set
\* filepath = None and exit 1; the finally clause then unlinks nothing
update_fetch_failed(err) ==
  /\ pc = "fetch_resource"
  /\ err \in fetch_errors(args.resource_id)
  /\ tempfiles' = fetch_failed_tempfiles(tempfiles, runs)
  /\ filepath' = None
  /\ stderr' = Append(stderr, err)
  /\ exit_code' = Some(1)
  /\ pc' = "done"
  /\ UNCHANGED <<rvars, args, ckan, resp, old_hash, new_hash, changed, updated,
                 runs, calls, ivars>>
  /\ UNCHANGED <<lib, rerun>>

\* a dispatch that creates the resource again when only the table is missing
after_get_hash_again(item) ==
  CASE item = "package" -> "package_create"
    [] item \in {"resource", "datastore"} -> "create_resource"
    [] OTHER -> "hash_file"

\* the first step after get_hash: none of the except clause when nothing was
\* raised, else the first of package_create (item == 'package'),
\* create_resource (item in {'package', 'resource'}) and create_hash_table
after_get_hash(item) ==
  CASE item = "package" -> "package_create"
    [] item = "resource" -> "create_resource"
    [] item = "datastore" -> "create_hash_table"
    [] OTHER -> "hash_file"

\* old_hash = ckan.get_hash(resource_id), and the dispatch on the item of the
\* NotFound it may raise
update_get_hash ==
  /\ pc = "get_hash"
  /\ LET got == get_hash(ckan, datastore, args.resource_id)
     IN  /\ old_hash' = got.hash
         /\ pc' = after_get_hash(got.item)
  /\ UNCHANGED <<rvars, tempfiles, args, ckan, resp, filepath, new_hash, changed,
                 updated, stderr, exit_code, runs, calls, ivars>>
  /\ UNCHANGED <<lib, rerun>>

\* item == 'package': ckan.hash_table_pack = ckan.package_create(...)
update_package_create ==
  /\ pc = "package_create"
  /\ package' = [exists |-> TRUE, created |-> package.created + 1, resources |-> <<>>]
  /\ ckan' = [ckan EXCEPT !.hash_table_pack = TRUE]
  /\ calls' = Append(calls, <<"package_create", Missing, None>>)
  /\ pc' = "create_resource"
  /\ UNCHANGED <<filestore, datastore, tempfiles, args, resp, filepath, old_hash,
                 new_hash, changed, updated, stderr, exit_code, runs, ivars>>
  /\ UNCHANGED <<lib, rerun>>

\* item in {'package', 'resource'}: ckan.create_resource(...), and
\* ckan.hash_table_id = resource['id']
update_create_resource ==
  /\ pc = "create_resource"
  /\ LET id == <<"hash", Len(package.resources) + 1>>
     IN  /\ package' = [package EXCEPT !.resources = Append(@, id)]
         /\ ckan' = [ckan EXCEPT !.hash_table_id = Some(id)]
         /\ calls' = Append(calls, <<"resource_create", id, None>>)
  /\ pc' = "create_hash_table"
  /\ UNCHANGED <<filestore, datastore, tempfiles, args, resp, filepath, old_hash,
                 new_hash, changed, updated, stderr, exit_code, runs, ivars>>
  /\ UNCHANGED <<lib, rerun>>

\* the kwargs create_hash_table passes to ckan.create_table
hash_table_kwargs(c) ==
  [resource_id |-> c.hash_table_id[1],
   fields |-> <<[id |-> "datastore_id", type |-> "text"],
                [id |-> "hash", type |-> "text"]>>,
   primary_key |-> Some("datastore_id")]

\* create_hash_table(ckan, verbose), then old_hash = ckan.get_hash(resource_id)
update_create_hash_table ==
  /\ pc = "create_hash_table"
  /\ LET kw == hash_table_kwargs(ckan)
         t == datastore[kw.resource_id]
     IN  /\ create_accepted(t, kw.primary_key)
         /\ datastore' = [datastore EXCEPT ![kw.resource_id] =
                            datastore_create(t, kw.fields, kw.primary_key)]
         /\ calls' = Append(calls, <<"create_table", kw.resource_id, None>>)
  /\ old_hash' = get_hash(ckan, datastore', args.resource_id).hash
  /\ pc' = "hash_file"
  /\ UNCHANGED <<filestore, package, tempfiles, args, ckan, resp, filepath,
                 new_hash, changed, updated, stderr, exit_code, runs, ivars>>
  /\ UNCHANGED <<lib, rerun>>

\* a remote call of the ledger creation raises: the exception leaves update
\* through the finally clause
update_ledger_error ==
  /\ pc \in {"package_create", "create_resource", "create_hash_table"}
  /\ finish(1, "Traceback")
  /\ UNCHANGED <<rvars, args, ckan, resp, filepath, old_hash, new_hash, changed,
                 updated, runs, calls, ivars>>
  /\ UNCHANGED <<lib, rerun>>

\* a comparison that takes a resource without a ledger entry for unchanged
is_changed_stored(new, old) == IF old # None THEN new # old ELSE FALSE

\* changed = new_hash != old_hash if old_hash else True
is_changed(new, old) == IF old # None THEN new # old ELSE TRUE

\* a decision that skips only forced runs
skips_forced(is_new, force) == ~(is_new \/ ~force)

\* not (changed or force): the run skips the upload
skips(is_new, force) == ~(is_new \/ force)

\* new_hash = utils.hash_file(filepath), changed, and the exit when nothing is
\* to be done
update_hash_file ==
  /\ pc = "hash_file"
  /\ LET new == Some(hash_file(resp, CHUNKSIZE_BYTES))
         is_new == is_changed(new, old_hash)
     IN  /\ new_hash' = new
         /\ changed' = is_new
         /\ IF skips(is_new, args.force)
            THEN finish(0, "")
            ELSE pc' = "update_resource" /\ UNCHANGED <<tempfiles, stderr, exit_code>>
  /\ UNCHANGED <<rvars, args, ckan, resp, filepath, old_hash, updated, runs,
                 calls, ivars>>
  /\ UNCHANGED <<lib, rerun>>

\* ------------------------------------------- datastorer.update_resource
\* method = 'upsert' if primary_key else 'insert'
method_for(primary_key) == IF primary_key # None THEN "upsert" ELSE "insert"

\* a replace that deletes the table whatever the primary key
deletes_table_always(primary_key) == TRUE

\* `if not primary_key`: the table is deleted before it is created
deletes_table(primary_key) == primary_key = None

\* the parser is found and records.next() gives the header record; an empty
\* file ends the generator, and the StopIteration leaves update
update_resource_parse ==
  /\ pc = "update_resource"
  /\ IF read_csv(resp) = <<>>
     THEN finish(1, "Traceback")
     ELSE /\ pc' = IF deletes_table(args.primary_key)
                   THEN "delete_table" ELSE "create_table"
          /\ UNCHANGED <<tempfiles, stderr, exit_code>>
  /\ UNCHANGED <<rvars, args, ckan, resp, filepath, old_hash, new_hash, changed,
                 updated, runs, calls, ivars>>
  /\ UNCHANGED <<lib, rerun>>

\* what the remote's datastore_delete can answer for the table
delete_outcomes(table) ==
  IF table.exists THEN {"deleted", "read-only", "error"} ELSE {"NotFound", "error"}

\* CKAN.delete_table: FALSE when an exception leaves it
delete_table_returns(outcome) == outcome \in {"deleted", "NotFound", "read-only"}

\* if not primary_key: ckan.delete_table(resource_id)
update_resource_delete_table(outcome) ==
  /\ pc = "delete_table"
  /\ outcome \in delete_outcomes(datastore[args.resource_id])
  /\ calls' = Append(calls, <<"delete_table", args.resource_id,
                              IF outcome = "deleted" THEN None ELSE Some(outcome)>>)
  /\ datastore' = IF outcome = "deleted"
                  THEN [datastore EXCEPT ![args.resource_id] = no_table]
                  ELSE datastore
  /\ IF delete_table_returns(outcome)
     THEN pc' = "create_table" /\ UNCHANGED <<tempfiles, stderr, exit_code>>
     ELSE finish(1, "Traceback")
  /\ UNCHANGED <<filestore, package, args, ckan, resp, filepath, old_hash, new_hash,
                 changed, updated, runs, ivars>>
  /\ UNCHANGED <<lib, rerun>>

\* ckan.create_table(resource_id, fields, **create_kwargs), then the call
\* ckan.insert_records(resource_id, records, **insert_kwargs) on the records
\* left after the header
update_resource_create_table ==
  /\ pc = "create_table"
  /\ LET t == datastore[args.resource_id]
         records == Tail(read_csv(resp))
         fields == gen_fields(<<"id">>, FALSE)
     IN  /\ create_accepted(t, args.primary_key)
         /\ datastore' = [datastore EXCEPT ![args.resource_id] =
                            datastore_create(t, fields, args.primary_key)]
         /\ insert_records_call(args.resource_id, records, args.chunksize_rows,
                                method_for(args.primary_key), 0, None)
  /\ calls' = calls \o << <<"create_table", args.resource_id, None>>,
                           <<"insert_records", args.resource_id, None>> >>
  /\ pc' = "insert_records"
  /\ UNCHANGED <<filestore, package, tempfiles, args, ckan, resp, filepath, old_hash,
                 new_hash, changed, updated, stderr, exit_code, runs>>
  /\ UNCHANGED <<lib, rerun>>

\* an update_resource that inserts the records after create_table raised
update_resource_create_error_goes_on ==
  /\ pc = "create_table"
  /\ insert_records_call(args.resource_id, Tail(read_csv(resp)), args.chunksize_rows,
                         method_for(args.primary_key), 0, None)
  /\ calls' = calls \o << <<"create_table", args.resource_id, Some("error")>>,
                           <<"insert_records", args.resource_id, None>> >>
  /\ pc' = "insert_records"
  /\ UNCHANGED <<rvars, tempfiles, args, ckan, resp, filepath, old_hash, new_hash,
                 changed, updated, stderr, exit_code, runs>>
  /\ UNCHANGED <<lib, rerun>>

\* ckan.create_table raises
update_resource_create_error ==
  /\ pc = "create_table"
  /\ calls' = Append(calls, <<"create_table", args.resource_id, Some("error")>>)
  /\ finish(1, "Traceback")
  /\ UNCHANGED <<rvars, args, ckan, resp, filepath, old_hash, new_hash, changed,
                 updated, runs, ivars>>
  /\ UNCHANGED <<lib, rerun>>

\* the value update_resource returns once insert_records has returned `n`
update_resource_result(n) == TRUE

\* a ledger write after every upload that returned
writes_hash_updated(is_updated, is_changed_) == is_updated

\* whether update calls update_hash_table: `if updated and changed`
writes_hash(is_updated, is_changed_) == is_updated /\ is_changed_

\* insert_records has ended: update_resource returns, and update either calls
\* update_hash_table (one record, method 'upsert'), reports the failure or ends
update_resource_return ==
  /\ pc = "insert_records"
  /\ ipc \in {"returned", "raised"}
  /\ IF ipc = "raised"
     THEN /\ finish(1, "Traceback")
          /\ UNCHANGED <<updated, calls, ivars>>
     ELSE LET is_updated == update_resource_result(iresult[1])
          IN  /\ updated' = is_updated
              /\ IF writes_hash(is_updated, changed)
                 THEN /\ insert_records_call(
                           ckan.hash_table_id[1],
                           <<[datastore_id |-> args.resource_id, hash |-> new_hash[1]]>>,
                           0, "upsert", 0, None)
                      /\ calls' = Append(calls, <<"update_hash_table", ckan.hash_table_id[1], None>>)
                      /\ pc' = "update_hash_table"
                      /\ UNCHANGED <<tempfiles, stderr, exit_code>>
                 ELSE IF ~is_updated
                 THEN /\ finish(1, "ERROR: resource not updated.")
                      /\ UNCHANGED <<calls, ivars>>
                 ELSE /\ finish(0, "")
                      /\ UNCHANGED <<calls, ivars>>
  /\ UNCHANGED <<rvars, args, ckan, resp, filepath, old_hash, new_hash, changed, runs>>
  /\ UNCHANGED <<lib, rerun>>

\* update_hash_table's insert_records call has ended: the finally clause
update_hash_table_return ==
  /\ pc = "update_hash_table"
  /\ ipc \in {"returned", "raised"}
  /\ IF ipc = "raised" THEN finish(1, "Traceback") ELSE finish(0, "")
  /\ UNCHANGED <<rvars, args, ckan, resp, filepath, old_hash, new_hash, changed,
                 updated, runs, calls, ivars>>
  /\ UNCHANGED <<lib, rerun>>

\* between two runs somebody uploads another file for a resource
modify_resource(resource_id, file) ==
  /\ pc \in {"idle", "done"}
  /\ file # filestore[resource_id]
  /\ filestore' = [filestore EXCEPT ![resource_id] = file]
  /\ UNCHANGED <<package, datastore, tempfiles, uvars, calls, ivars>>
  /\ UNCHANGED <<lib, rerun>>

\* chunksize_rows as given on the command line: everything in one batch, or
\* one row per batch
ChunkRows == {0, 1}

Init ==
  /\ \E file \in Files :
       filestore = [rid \in Resources |-> IF rid \in Edited THEN file ELSE Unedited]
  /\ package = [exists |-> FALSE, created |-> 0, resources |-> <<>>]
  /\ datastore = [rid \in Resources \cup HashResources |-> no_table]
  /\ tempfiles = {}
  /\ no_run
  /\ no_call
  /\ ipc = "idle"
  /\ ikwargs = [resource_id |-> Missing, method |-> "insert", chunksize |-> 0,
                start |-> 0, stop |-> None]
  /\ irecords = <<>> /\ i = <<>> /\ yielded = FALSE /\ count = 1
  /\ batches = <<>> /\ accepted = 0
  /\ ierror = None /\ iresult = None /\ iexc = None

Next ==
  \/ \E resource_id \in Resources \cup {Missing}, force \in BOOLEAN,
        primary_key \in {None, Some("id")}, chunksize_rows \in ChunkRows :
       update_start(resource_id, force, primary_key, chunksize_rows)
  \/ update_fetch_resource
  \/ \E err \in {"NotFound", "NotAuthorized", "Exception"} : update_fetch_failed(err)
  \/ update_get_hash
  \/ update_package_create
  \/ update_create_resource
  \/ update_create_hash_table
  \/ update_ledger_error
  \/ update_hash_file
  \/ update_resource_parse
  \/ \E outcome \in {"deleted", "NotFound", "read-only", "error"} :
       update_resource_delete_table(outcome)
  \/ update_resource_create_table
  \/ update_resource_create_error
  \/ insert_records_batch
  \/ \E err \in RemoteErrors : insert_records_error(err)
  \/ insert_records_return
  \/ update_resource_return
  \/ update_hash_table_return
  \/ \E resource_id \in Edited, file \in Files : modify_resource(resource_id, file)

Spec == Init /\ [][Next]_vars

\* ------------------------------------------- insert_records called directly
\* a record of a one-column table
Records == {[id |-> v] : v \in Vals}

\* a library user calls insert_records on an existing table, with any records,
\* chunksize, start, stop and method
InitInsert ==
  /\ filestore = [rid \in Resources |-> <<>>]
  /\ package = [exists |-> FALSE, created |-> 0, resources |-> <<>>]
  /\ \E primary_key \in {None, Some("id")} :
       datastore = [rid \in Resources \cup HashResources |->
                      IF rid \in Resources
                      THEN new_table(<<[id |-> "id", type |-> "text"]>>, primary_key)
                      ELSE no_table]
  /\ tempfiles = {}
  /\ no_run
  /\ no_call
  /\ ipc = "loop"
  /\ \E records \in SeqsUpTo(MaxLen, Records), chunksize \in 0..MaxChunk,
        method \in {"insert", "upsert"}, start \in 0..MaxStart,
        stop \in {None} \cup {Some(n) : n \in 0..MaxLen} :
       /\ ikwargs = [resource_id |-> <<"res", 1>>, method |-> method,
                     chunksize |-> chunksize, start |-> start, stop |-> stop]
       /\ irecords = records
       /\ i = islice(records, start, stop)
  /\ yielded = FALSE
  /\ count = 1
  /\ batches = <<>>
  /\ accepted = 0
  /\ ierror = None
  /\ iresult = None
  /\ iexc = None

NextInsert ==
  \/ insert_records_batch
  \/ \E err \in RemoteErrors : insert_records_error(err)
  \/ insert_records_return

SpecInsert == InitInsert /\ [][NextInsert]_vars

\* ------------------------------------------------------------ properties

\* the run has made a call of the function `name`
called(name) == \E k \in DOMAIN calls : calls[k][1] = name

\* the run has called create_table and then insert_records on the target table
uploads_target ==
  \E j, k \in DOMAIN calls :
    /\ j < k
    /\ calls[j][1] = "create_table" /\ calls[j][2] = args.resource_id
    /\ calls[k][1] = "insert_records" /\ calls[k][2] = args.resource_id

\* the run is past the decision to upload: in update_resource, in the ledger
\* write after it, or ended
past_decision ==
  pc \in {"update_resource", "delete_table", "create_table", "insert_records",
          "update_hash_table", "done"}

\* the run ended as a skip: exit code 0 without an upload
skipped == pc = "done" /\ exit_code = Some(0) /\ ~updated

\* the hash the ledger on the remote holds for the resource, None if none
stored_hash(resource_id) == get_hash(CKAN(package), datastore, resource_id).hash

\* the ledger table on the remote, as the next CKAN object finds it
hash_table ==
  IF package.exists /\ package.resources # <<>>
  THEN datastore[package.resources[1]] ELSE no_table

\* C1: skip law. Once the fresh hash is computed, if it equals the hash read
\* from the ledger and force is false, the run has ended with exit code 0 and
\* has made no create_table, delete_table, insert_records, datastore_upsert or
\* update_hash_table call, on the target table or on the ledger.
C1_SkipLaw ==
  (new_hash # None /\ old_hash = new_hash /\ ~args.force) =>
    /\ skipped
    /\ \A k \in DOMAIN calls :
         calls[k][1] \notin {"create_table", "delete_table", "insert_records",
                             "datastore_upsert", "update_hash_table"}
    /\ stored_hash(args.resource_id) = old_hash

\* a second run that finds the hash of the first run in the ledger and skips
C1_Witness ==
  /\ pc = "done" /\ runs = 2 /\ ~args.force
  /\ new_hash # None /\ old_hash = new_hash
  /\ calls = <<>> /\ exit_code = Some(0)

\* C2 as stated: a forced run whose upload succeeded has updated the ledger
\* entry of the resource, also when the hash is unchanged.
C2_ForceUpdatesLedger ==
  (pc = "done" /\ args.force /\ updated /\ exit_code = Some(0)) =>
    called("update_hash_table")

\* C2 amended: a forced run never skips, whatever the comparison of the hashes:
\* it goes on to the upload, and it ends with exit code 0 only after create_table
\* and insert_records on the target table. Once update_resource has returned,
\* the run calls update_hash_table exactly when the hash changed; a forced run
\* on an unchanged hash leaves the ledger alone, which still holds that hash.
C2_ForceLaw ==
  (new_hash # None /\ args.force) =>
    /\ past_decision /\ ~skipped
    /\ (pc = "done" /\ exit_code = Some(0)) => uploads_target
    /\ (pc = "done" /\ updated) => (called("update_hash_table") <=> changed)
    /\ (pc = "done" /\ updated /\ ~changed) =>
         stored_hash(args.resource_id) = new_hash

\* a forced run on an unchanged file: uploaded, and the ledger not written
C2_Witness ==
  /\ pc = "done" /\ args.force /\ updated /\ ~changed
  /\ exit_code = Some(0)
  /\ uploads_target /\ ~called("update_hash_table")

\* the upload of the run failed: the file gave no header record, create_table
\* raised, or a datastore_upsert call on the target table raised
upload_failed ==
  \/ new_hash # None /\ ~skips(changed, args.force) /\ read_csv(resp) = <<>>
     /\ pc = "done"
  \/ \E k \in DOMAIN calls :
       /\ calls[k][1] \in {"create_table", "datastore_upsert"}
       /\ calls[k][2] = args.resource_id
       /\ calls[k][3] # None

\* C3: a run whose schema inference or upload failed (the oversized-payload
\* failure that makes insert_records return 0 included) does not call
\* update_hash_table, ends with exit code 1, and leaves in the ledger the hash
\* it read at its start.
C3_FailureKeepsHash ==
  upload_failed =>
    /\ ~called("update_hash_table")
    /\ pc = "done" => exit_code = Some(1)
    /\ stored_hash(args.resource_id) = old_hash

\* the table holds every data record of the file
holds_records(table, file) ==
  /\ table.exists
  /\ \A k \in 2..Len(file) :
       \E j \in DOMAIN table.records : table.records[j] = read_csv(file)[k]

\* C4: ledger consistency. Between runs, whenever the ledger holds hash H for
\* a resource, the datastore table of the resource holds the records of the
\* file whose hash is H.
C4_LedgerConsistent ==
  pc \in {"idle", "done"} =>
    \A rid \in Resources :
      stored_hash(rid) # None =>
        \E file \in Files :
          /\ stored_hash(rid) = Some(hash_file(file, CHUNKSIZE_BYTES))
          /\ holds_records(datastore[rid], file)

\* C5: no run ends with a temporary file still on disk.
C5_TempFilesRemoved ==
  pc = "done" => tempfiles = {}

\* C6: with force false, once the fresh hash is computed, if the ledger had no
\* hash for the resource or a different one, the run is marked changed and does
\* not skip: it goes on to the upload, and it ends with exit code 0 only after
\* create_table followed by insert_records on the target table.
C6_ChangedUploads ==
  (new_hash # None /\ ~args.force /\ (old_hash = None \/ old_hash # new_hash)) =>
    /\ changed
    /\ past_decision /\ ~skipped
    /\ pc \in {"insert_records", "update_hash_table"} => uploads_target
    /\ (pc = "done" /\ exit_code = Some(0)) => uploads_target

\* an unforced second run on a replaced file: the stored hash differs, and the
\* run uploaded
C6_Witness ==
  /\ pc = "done" /\ ~args.force
  /\ old_hash # None /\ new_hash # None /\ old_hash # new_hash
  /\ uploads_target /\ exit_code = Some(0)

\* C7: ledger creation is idempotent. Over all runs the ledger package is
\* created at most once and has at most one resource, at most one ledger table
\* exists and it is the table of that resource, with the fields
\* datastore_id:text and hash:text, the primary key datastore_id and at most
\* one row per datastore_id; a run that ends with exit code 0 leaves exactly one
\* package, one resource and one table.
C7_OneLedger ==
  /\ package.created <= 1
  /\ Len(package.resources) <= 1
  /\ Cardinality({rid \in HashResources : datastore[rid].exists}) <= 1
  /\ \A rid \in HashResources :
       datastore[rid].exists =>
         /\ package.resources = <<rid>>
         /\ datastore[rid].fields = <<[id |-> "datastore_id", type |-> "text"],
                                      [id |-> "hash", type |-> "text"]>>
         /\ datastore[rid].primary_key = Some("datastore_id")
         /\ unique_keys(datastore[rid].records, "datastore_id")
  /\ (pc = "done" /\ exit_code = Some(0)) =>
       /\ package.exists /\ package.created = 1
       /\ Len(package.resources) = 1
       /\ hash_table.exists

\* a second run that found the ledger of the first run, created nothing and
\* added its row to the table
C7_Witness ==
  /\ pc = "done" /\ runs = 2 /\ exit_code = Some(0)
  /\ ~called("package_create") /\ ~called("resource_create")
  /\ \A k \in DOMAIN calls : calls[k][1] = "create_table" => calls[k][2] \in Resources
  /\ Len(hash_table.records) = 2

\* every datastore_upsert call of the insert_records call was accepted and the
\* call returned
all_accepted == ipc = "returned" /\ accepted = Len(batches)

\* C8: insert_records sends bounded batches: with chunksize c > 0 every
\* datastore_upsert call carries between 1 and c records, with chunksize 0 there
\* is one call carrying everything, and the batches sent so far followed by the
\* items not yet consumed are the records restricted to [start, stop) -- so a
\* call that ran to its end sent exactly that slice, in order.
C8_BoundedBatches ==
  LET slice == islice(irecords, ikwargs.start, ikwargs.stop)
  IN  ipc # "idle" =>
        /\ ikwargs.chunksize > 0 =>
             \A k \in DOMAIN batches :
               Len(batches[k]) >= 1 /\ Len(batches[k]) <= ikwargs.chunksize
        /\ ikwargs.chunksize = 0 =>
             /\ Len(batches) <= 1
             /\ all_accepted => Len(batches) = 1 /\ batches[1] = slice
        /\ Flatten(batches) \o i = slice
        /\ all_accepted => Flatten(batches) = slice

\* a call that ran to its end and sent a proper slice of its input in several
\* batches
C8_Witness ==
  /\ all_accepted
  /\ ikwargs.chunksize = 1 /\ ikwargs.start = 1 /\ ikwargs.stop = None
  /\ Len(irecords) = 3 /\ Len(batches) = 2

\* C9: when every batch is accepted, insert_records returns the number of
\* records it sent.
C9_ReturnsCount ==
  all_accepted => iresult = Some(Len(Flatten(batches)))

\* C10: a 'Broken pipe' connection error from datastore_upsert makes
\* insert_records return 0 without raising, at whichever batch and for any
\* chunksize; any other connection error leaves the call as that exception.
C10_BrokenPipeReturnsZero ==
  /\ ierror = Some(BrokenPipeError) =>
       ipc = "returned" /\ iresult = Some(0) /\ iexc = None
  /\ ierror = Some(ConnectionResetError) =>
       ipc = "raised" /\ iresult = None /\ iexc = Some(ConnectionResetError)

\* the oversized payload hits the second batch of a chunked call
C10_Witness ==
  /\ ierror = Some(BrokenPipeError)
  /\ accepted = 1 /\ Len(batches) = 2 /\ ikwargs.chunksize > 0
  /\ iresult = Some(0)

\* ----------------------------------- library functions called on their own
\* every other variable while a library function is called on its own
lib_frame == UNCHANGED <<rvars, tempfiles, uvars, calls, ivars, rerun>>

\* a call of `op` with the arguments `arg` that has not started
lib_call(op, arg) == [op |-> op, arg |-> arg, done |-> FALSE, ret |-> <<>>]

\* what a call gives back: the value returned, or the exception raised
returns(value) == [raised |-> None, value |-> value]
raises(exception) == [raised |-> Some(exception), value |-> None]

\* the two versions of the CKAN class in the repository
Versions == {"ckanutils/api.py", "ckanutils.py"}

\* ------------------------------------------------------ CKAN.delete_table
\* what the remote's datastore_delete gives back: its result for a deleted
\* table, NotFound for a table that does not exist, a ValidationError whose
\* error_dict has the key 'read-only', names an unknown resource or holds
\* something else, or a connection error
deleted_response == [type |-> "ok", error_dict |-> <<>>, result |-> <<"filters">>]
not_found_response == [type |-> "NotFound", error_dict |-> <<>>, result |-> <<>>]
read_only_response ==
  [type |-> "ValidationError",
   error_dict |-> << <<"read-only", "Cannot edit read-only resource">> >>,
   result |-> <<>>]
no_resource_response ==
  [type |-> "ValidationError",
   error_dict |-> << <<"resource_id", <<"Not found: Resource">> >> >>,
   result |-> <<>>]
invalid_response ==
  [type |-> "ValidationError",
   error_dict |-> << <<"filters", "Not a json object">> >>,
   result |-> <<>>]
connection_response == [type |-> "ConnectionError", error_dict |-> <<>>, result |-> <<>>]

DeleteResponses ==
  {deleted_response, not_found_response, read_only_response, no_resource_response,
   invalid_response, connection_response}

\* key in err.error_dict
has_key(error_dict, key) == \E k \in DOMAIN error_dict : error_dict[k][1] = key

\* err.error_dict.get('resource_id') == ['Not found: Resource']
resource_not_found(error_dict) ==
  \E k \in DOMAIN error_dict :
    error_dict[k] = <<"resource_id", <<"Not found: Resource">> >>

\* a delete_table that lets the read-only rejection leave as the exception
delete_table_strict(version, response) ==
  CASE response.type = "ok" -> returns(Some(response.result))
    [] response.type = "NotFound" -> returns(None)
    [] OTHER -> raises(response)

\* CKAN.delete_table: `result` is bound by the try clause, by the NotFound
\* clause and by the branches of the ValidationError clause that assign it;
\* in ckanutils/api.py a ValidationError without 'read-only' leaves the except
\* clause with `result` unbound, and `return result` raises UnboundLocalError
delete_table(version, response) ==
  CASE response.type = "ok" -> returns(Some(response.result))
    [] response.type = "NotFound" -> returns(None)
    [] response.type = "ValidationError" ->
         IF has_key(response.error_dict, "read-only") THEN returns(None)
         ELSE IF version = "ckanutils/api.py"
              THEN raises([type |-> "UnboundLocalError", error_dict |-> <<>>,
                           result |-> <<>>])
         ELSE IF resource_not_found(response.error_dict) THEN returns(None)
         ELSE raises(response)
    [] OTHER -> raises(response)

DeleteCalls ==
  {lib_call("delete_table", [version |-> v, response |-> r]) :
     v \in Versions, r \in DeleteResponses}

delete_table_call ==
  /\ lib.op = "delete_table" /\ ~lib.done
  /\ lib' = [lib EXCEPT !.done = TRUE,
                        !.ret = delete_table(lib.arg.version, lib.arg.response)]
  /\ lib_frame

\* --------------------------------------------------------- CKAN.get_hash
\* the NotFound exceptions of get_hash: `item` is the item of the dict it is
\* raised with, None when it is raised with a plain message
NotFound(item) == [type |-> "NotFound", item |-> item]

\* CKAN.__init__ of ckanutils/api.py: hash_table_id is None when package_show
\* raises NotFound, else hash_table_pack['resources'][0]['id'], which raises
\* IndexError for a package without resources
CKAN_api(pack) ==
  IF ~pack.exists THEN returns([hash_table_id |-> None])
  ELSE IF pack.resources = <<>> THEN raises([type |-> "IndexError", item |-> None])
  ELSE returns([hash_table_id |-> Some(pack.resources[1])])

\* CKAN.get_hash of ckanutils/api.py: NotFound with a plain message when
\* hash_table_id is not set; None when datastore_search raises NotFound or
\* finds no row; else the hash of the first row found
get_hash_api(c, ds, resource_id) ==
  IF c.hash_table_id = None THEN raises(NotFound(None))
  ELSE LET t == ds[c.hash_table_id[1]]
           found == SelectSeq(t.records, LAMBDA row : row.datastore_id = resource_id)
       IN  IF ~t.exists \/ found = <<>> THEN returns(None)
           ELSE returns(Some(found[1].hash))

\* CKAN(...).get_hash(resource_id) in the given version of the class
get_hash_of(version, pack, ds, resource_id) ==
  IF version = "ckanutils.py"
  THEN LET got == get_hash(CKAN(pack), ds, resource_id)
       IN  IF got.item = "" THEN returns(got.hash) ELSE raises(NotFound(Some(got.item)))
  ELSE LET c == CKAN_api(pack)
       IN  IF c.raised # None THEN c ELSE get_hash_api(c.value, ds, resource_id)

\* the states of the ledger on the remote: no package; a package without a
\* resource; a resource without a datastore table; a table with the given rows
no_package == [exists |-> FALSE, created |-> 0, resources |-> <<>>]
empty_package == [exists |-> TRUE, created |-> 1, resources |-> <<>>]
ledger_package == [exists |-> TRUE, created |-> 1, resources |-> << <<"hash", 1>> >>]

no_tables == [rid \in Resources \cup HashResources |-> no_table]

ledger_with(rows) ==
  [no_tables EXCEPT ![<<"hash", 1>>] =
     [new_table(hash_table_kwargs(CKAN(ledger_package)).fields,
                hash_table_kwargs(CKAN(ledger_package)).primary_key)
        EXCEPT !.records = rows]]

\* the rows a ledger table can hold: at most one per resource, with hash 1 or 2
LedgerRows ==
  {<<>>} \cup
  {<<[datastore_id |-> rid, hash |-> h]>> : rid \in Resources, h \in Vals} \cup
  {<<[datastore_id |-> <<"res", 1>>, hash |-> h1],
     [datastore_id |-> <<"res", 2>>, hash |-> h2]>> : h1 \in Vals, h2 \in Vals}

Ledgers ==
  {[package |-> no_package, datastore |-> no_tables],
   [package |-> empty_package, datastore |-> no_tables],
   [package |-> ledger_package, datastore |-> no_tables]} \cup
  {[package |-> ledger_package, datastore |-> ledger_with(rows)] : rows \in LedgerRows}

GetHashCalls ==
  {lib_call("get_hash", [version |-> v, ledger |-> l, resource_id |-> rid]) :
     v \in Versions, l \in Ledgers, rid \in Resources}

get_hash_call ==
  /\ lib.op = "get_hash" /\ ~lib.done
  /\ lib' = [lib EXCEPT !.done = TRUE,
                        !.ret = get_hash_of(lib.arg.version, lib.arg.ledger.package,
                                            lib.arg.ledger.datastore,
                                            lib.arg.resource_id)]
  /\ lib_frame

\* --------------------------------------------------- CKAN.fetch_resource
\* what resource_show gives back for the resource id: the resource, NotFound,
\* or a ValidationError that names an unknown resource or something else
ShowResponses ==
  {[type |-> "ok", error_dict |-> <<>>, result |-> <<"perma_link">>],
   not_found_response, no_resource_response, invalid_response}

\* the response of requests.get: its status code, and the x-ckan-error header
\* ('' when absent) of every response of its redirect history
HttpStatus == {200, 401, 404}
Histories ==
  {<<>>, <<"">>, <<"403 Access Denied">>, <<"", "403 Access Denied">>,
   <<"404 Not Found">>}

\* '403' in h.headers.get('x-ckan-error', '')
forbidden(header) == header \in {"403 Access Denied"}

\* the messages of the exceptions: the format string and the values the %
\* operator puts into it
not_found_message(version, resource_id) ==
  IF version = "ckanutils.py"
  THEN [format |-> "Resource %s was not found in filestore.", values |-> <<resource_id>>]
  ELSE [format |-> "Resource %s was not found.", values |-> <<resource_id>>]

denied_message(resource_id) ==
  [format |-> "Access to fetch resource %s was denied.", values |-> <<resource_id>>]

error(type, message) == [type |-> type, message |-> message]

\* the try clause around resource_show: None when the resource is found, else
\* the exception that leaves fetch_resource
show_error(version, resource_id, show) ==
  CASE show.type = "ok" -> None
    [] show.type = "NotFound" ->
         Some(error("NotFound", not_found_message(version, resource_id)))
    [] OTHER ->
         IF version = "ckanutils.py" /\ resource_not_found(show.error_dict)
         THEN Some(error("NotFound", not_found_message(version, resource_id)))
         ELSE Some(error(show.type, show.error_dict))

\* the download is refused: ckanutils.py raises NotAuthorized for a 403 marker
\* in the history or a 401 status; ckanutils/api.py has no such check
denied(version, status, history) ==
  /\ version = "ckanutils.py"
  /\ \/ \E k \in DOMAIN history : forbidden(history[k])
     \/ status = 401

\* CKAN.fetch_resource: the response r (with the file path in ckanutils/api.py)
fetch_resource(version, resource_id, show, status, history) ==
  LET err == show_error(version, resource_id, show)
      r == [status_code |-> status, history |-> history]
  IN  IF err # None THEN raises(err[1])
      ELSE IF denied(version, status, history)
      THEN raises(error("NotAuthorized", denied_message(resource_id)))
      ELSE IF version = "ckanutils.py" THEN returns(Some(r))
      ELSE returns(Some(<<r, "filepath">>))

FetchCalls ==
  {lib_call("fetch_resource",
            [version |-> v, resource_id |-> rid, show |-> sh, status |-> st,
             history |-> h]) :
     v \in Versions, rid \in Resources, sh \in ShowResponses, st \in HttpStatus,
     h \in Histories}

fetch_resource_call ==
  /\ lib.op = "fetch_resource" /\ ~lib.done
  /\ lib' = [lib EXCEPT !.done = TRUE,
                        !.ret = fetch_resource(lib.arg.version, lib.arg.resource_id,
                                               lib.arg.show, lib.arg.status,
                                               lib.arg.history)]
  /\ lib_frame

\* -------------------------------------------------- CKAN.create_resource
\* the payload kinds a caller can supply as keyword arguments
PayloadKinds == {"url", "filepath", "fileobj"}

\* the payload kinds the version looks at: ckanutils/api.py knows no fileobj
recognised(version) ==
  IF version = "ckanutils.py" THEN PayloadKinds ELSE {"url", "filepath"}

\* a check that asks for exactly one payload kind
usage_error_exclusive(version, kinds) ==
  Cardinality(kinds \cap recognised(version)) # 1

\* the check at the top of create_resource: not any(map(kwargs.get, [...])),
\* resp. not (kwargs.get('url') or kwargs.get('filepath'))
usage_error(version, kinds) == kinds \cap recognised(version) = {}

\* f, the file sent as `upload`: open(filepath) if filepath else fileobj (else
\* None in ckanutils/api.py)
upload_of(version, kinds) ==
  IF "filepath" \in kinds THEN Some("filepath")
  ELSE IF version = "ckanutils.py" /\ "fileobj" \in kinds THEN Some("fileobj")
  ELSE None

\* the url of the request: the one supplied, else the default of
\* kwargs.setdefault('url', 'http://example.com') in ckanutils.py
url_of(version, kinds) ==
  IF "url" \in kinds THEN Some("url")
  ELSE IF version = "ckanutils.py" THEN Some("http://example.com")
  ELSE None

\* CKAN.create_resource: the TypeError, or the one resource_create request it
\* sends and the resource the remote answers with
create_resource(version, kinds) ==
  IF usage_error(version, kinds)
  THEN [raised |-> Some("TypeError"), value |-> None, requests |-> <<>>]
  ELSE [raised |-> None, value |-> Some("resource"),
        requests |-> <<[url |-> url_of(version, kinds),
                        upload |-> upload_of(version, kinds)]>>]

CreateCalls ==
  {lib_call("create_resource", [version |-> v, kinds |-> ks]) :
     v \in Versions, ks \in SUBSET PayloadKinds}

create_resource_call ==
  /\ lib.op = "create_resource" /\ ~lib.done
  /\ lib' = [lib EXCEPT !.done = TRUE,
                        !.ret = create_resource(lib.arg.version, lib.arg.kinds)]
  /\ lib_frame

\* ------------------------------------------------------ datastorer.delete
\* what CKAN.delete_table of ckanutils/api.py prints: the read-only message
\* always, the others when verbose
delete_table_prints(response, verbose) ==
  (IF verbose THEN <<"Deleting table for datastore resource">> ELSE <<>>) \o
  (CASE response.type = "NotFound" /\ verbose ->
          <<"Can't delete. Datastore table not found.">>
     [] response.type = "ValidationError"
          /\ has_key(response.error_dict, "read-only") ->
          <<"Can't delete. Datastore table is read only table.">>
     [] OTHER -> <<>>)

\* the ds.delete command: CKAN(...).delete_table(resource_id, filters=...);
\* any exception is written to standard error and the command exits 1, else
\* the command ends and the process exits 0
ds_delete(response, quiet) ==
  LET result == delete_table("ckanutils/api.py", response)
  IN  [stdout |-> delete_table_prints(response, ~quiet),
       stderr |-> IF result.raised # None
                  THEN <<"ERROR", result.raised[1].type>> ELSE <<>>,
       deleted |-> response.type = "ok",
       exit_code |-> IF result.raised # None THEN 1 ELSE 0]

DsDeleteCalls ==
  {lib_call("ds.delete", [response |-> r, quiet |-> q]) :
     r \in DeleteResponses, q \in BOOLEAN}

ds_delete_call ==
  /\ lib.op = "ds.delete" /\ ~lib.done
  /\ lib' = [lib EXCEPT !.done = TRUE,
                        !.ret = ds_delete(lib.arg.response, lib.arg.quiet)]
  /\ lib_frame

\* ------------------------------------------------------- utils.gen_fields
\* longest list of names handed to gen_fields
MaxNames == 2

\* field names, as the pieces they are made of
FieldNames ==
  {<<"id">>, <<"value">>, <<"date">>, <<"raw_", "value">>, <<"Value">>,
   <<"DATE">>, <<"date", "_", "value">>, <<"up", "date", "d">>}

GenFieldsCalls ==
  {lib_call("gen_fields", [names |-> ns, type_cast |-> tc]) :
     ns \in SeqsUpTo(MaxNames, FieldNames) \cup {<< <<"id">>, <<"value">>, <<"date">> >>},
     tc \in BOOLEAN}

gen_fields_call ==
  /\ lib.op = "gen_fields" /\ ~lib.done
  /\ lib' = [lib EXCEPT !.done = TRUE,
                        !.ret = returns(gen_fields(lib.arg.names, lib.arg.type_cast))]
  /\ lib_frame

\* ------------------------------------------- utils.read_csv, utils.read_xls
\* most data lines of a file handed to a reader
MaxLines == 2

\* the cells of a file: empty, whitespace, or a value
Cells == {"", " ", "x"}

\* the lines of a file, each the sequence of its cells: csv lines need not
\* have as many cells as the header, and a blank line has none; the lines
\* tried have empty cells and values, or whitespace in every cell
Lines ==
  SeqsUpTo(3, Cells \ {" "}) \cup {[k \in 1..n |-> " "] : n \in 1..3}

\* the header lines tried
Headers == {<<"a", "b">>, <<"a">>, <<"a", "", "c">>, <<"", "b">>}

\* not value.strip(): nothing but whitespace
blank(value) == value \in {"", " "}

\* names = [name for name in header if name.strip()]
names_of(header) == SelectSeq(header, LAMBDA name : ~blank(name))

\* the restval of csv.DictReader: Python's None
restval == "None"

\* the row csv.DictReader(f, names) makes of a line: the names are paired with
\* the cells by position, a name without a cell gets restval, and the cells
\* without a name go under the key None, which _read_csv removes
csv_record(names, line) ==
  [k \in 1..Len(names) |-> IF k <= Len(line) THEN line[k] ELSE restval]

\* any(v.strip() for v in row.values()): "emit" when a value with text is met,
\* "drop" when all values are blank, "raise" when None.strip() is evaluated;
\* the order of row.values() decides between emit and raise when both a value
\* with text and a None are in the row
csv_row_outcomes(record) ==
  LET has_none == \E k \in DOMAIN record : record[k] = restval
      has_text == \E k \in DOMAIN record : record[k] # restval /\ ~blank(record[k])
  IN  IF has_none THEN (IF has_text THEN {"emit", "raise"} ELSE {"raise"})
      ELSE IF has_text THEN {"emit"} ELSE {"drop"}

\* read_xls: any(v and v.strip() for v in values) over all the cells of the row;
\* a row without cells does not appear in the groupby
xls_row_outcomes(names, line) ==
  IF \E k \in DOMAIN line : ~blank(line[k]) THEN {"emit"} ELSE {"drop"}

\* dict(zip(names, values)): names and cells paired by position, up to the
\* shorter of the two
xls_record(names, line) ==
  [k \in 1..Min(Len(names), Len(line)) |-> line[k]]

\* the records a reader yields from line k on, after the records `emitted`,
\* each with the number of its line: _read_csv starts again at the first line
\* (f.seek(0)), DictReader skips the lines without cells, and _sanitize_sheet
\* starts at row 0
RECURSIVE read_from(_, _, _, _, _)
read_from(reader, names, lines, k, emitted) ==
  IF k > Len(lines) THEN {returns(emitted)}
  ELSE IF lines[k] = <<>> THEN read_from(reader, names, lines, k + 1, emitted)
  ELSE LET record == IF reader = "read_csv" THEN csv_record(names, lines[k])
                     ELSE xls_record(names, lines[k])
           outcomes == IF reader = "read_csv" THEN csv_row_outcomes(record)
                       ELSE xls_row_outcomes(names, lines[k])
           more == Append(emitted, [line |-> k, values |-> record])
       IN  (IF "raise" \in outcomes
            THEN {[raised |-> Some("AttributeError"), value |-> emitted]} ELSE {})
           \cup
           (IF "emit" \in outcomes
            THEN read_from(reader, names, lines, k + 1, more) ELSE {})
           \cup
           (IF "drop" \in outcomes
            THEN read_from(reader, names, lines, k + 1, emitted) ELSE {})

\* what list(reader(filepath)) can give for the file with these lines, the
\* header first
read_records(reader, lines) ==
  IF lines = <<>> THEN {returns(<<>>)}
  ELSE read_from(reader, names_of(lines[1]), lines, 1, <<>>)

Readers == {"read_csv", "read_xls"}

ReaderCalls ==
  {lib_call("reader", [reader |-> rd, lines |-> <<h>> \o ls]) :
     rd \in Readers, h \in Headers, ls \in SeqsUpTo(MaxLines, Lines)}

reader_call ==
  /\ lib.op = "reader" /\ ~lib.done
  /\ \E out \in read_records(lib.arg.reader, lib.arg.lines) :
       lib' = [lib EXCEPT !.done = TRUE, !.ret = out]
  /\ lib_frame

\* ------------------------------------------------- utils.hash_file, called
\* most bytes of a file handed to hash_file
MaxBytes == 3

\* the data handed to hasher.update, in order: with a chunksize, what
\* f.read(chunksize) returns until it returns nothing; without, f.read()
RECURSIVE hash_fed(_, _)
hash_fed(unread, chunksize) ==
  IF chunksize = 0 THEN <<unread>>
  ELSE LET data == take(unread, chunksize)
       IN  IF data = <<>> THEN <<>>
           ELSE <<data>> \o hash_fed(drop(unread, chunksize), chunksize)

HashFileCalls ==
  {lib_call("hash_file", [bytes |-> b, chunksize |-> c]) :
     b \in SeqsUpTo(MaxBytes, Bytes), c \in 0..(MaxBytes + 1)}

\* hash_file(filepath, chunksize=c): the file is opened 'rb' and only read
hash_file_call ==
  /\ lib.op = "hash_file" /\ ~lib.done
  /\ lib' = [lib EXCEPT !.done = TRUE,
                        !.ret = [raised |-> None,
                                 value |-> hash_file(lib.arg.bytes, lib.arg.chunksize),
                                 fed |-> hash_fed(lib.arg.bytes, lib.arg.chunksize),
                                 file |-> lib.arg.bytes]]
  /\ lib_frame

\* ------------------------------- datastorer.update_resource, called alone
\* the extension of the file path, None for a path without a dot (a
\* temporary file): p.splitext(filepath)[1].split('.')[1] raises IndexError
Extensions == {None, Some("csv"), Some("xlsx"), Some("txt")}

\* a content type is its type and its subtype
ContentTypes ==
  {<<"text", "csv">>, <<"application", "xls">>, <<"text", "html">>,
   <<"application", "json">>}

\* the keys of the switch of ctype2ext
ctype_known(ctype) ==
  ctype \in {"xls", "csv", "vnd.openxmlformats-officedocument.spreadsheetml.sheet"}

\* utils.ctype2ext: the subtype looked up in the switch, 'csv' by default
ctype2ext(content_type) ==
  LET ctype == content_type[2]
  IN  IF ctype = "xls" THEN "xls"
      ELSE IF ctype = "csv" THEN "csv"
      ELSE IF ctype = "vnd.openxmlformats-officedocument.spreadsheetml.sheet"
      THEN "xlsx"
      ELSE "csv"

\* the extensions of the switch of update_resource
has_parser(extension) == extension \in {"xls", "xlsx", "csv"}

\* extension = ..., except IndexError: extension = utils.ctype2ext(content_type)
extension_of(extension, content_type) ==
  IF extension # None THEN extension[1] ELSE ctype2ext(content_type)

\* update_resource up to the call of insert_records: switch[extension]
\* raises KeyError for an extension without a parser (the handler is for
\* IndexError), records.next() raises StopIteration for a file without
\* lines, and otherwise the table is deleted when there is no primary key,
\* created, and the records are inserted
update_resource(extension, content_type, file, primary_key) ==
  LET ext == extension_of(extension, content_type)
  IN  IF ~has_parser(ext)
      THEN [raised |-> Some("KeyError"), value |-> None, calls |-> <<>>]
      ELSE IF file = <<>>
      THEN [raised |-> Some("StopIteration"), value |-> None, calls |-> <<>>]
      ELSE [raised |-> None, value |-> Some(TRUE),
            calls |-> (IF deletes_table(primary_key) THEN <<"delete_table">> ELSE <<>>)
                        \o <<"create_table", "insert_records">>]

UpdateResourceCalls ==
  {lib_call("update_resource",
            [extension |-> e, content_type |-> t, file |-> f, primary_key |-> pk]) :
     e \in Extensions, t \in ContentTypes, f \in Files, pk \in {None, Some("id")}}

update_resource_call ==
  /\ lib.op = "update_resource" /\ ~lib.done
  /\ lib' = [lib EXCEPT !.done = TRUE,
                        !.ret = update_resource(lib.arg.extension, lib.arg.content_type,
                                                lib.arg.file, lib.arg.primary_key)]
  /\ lib_frame

\* ------------------------------------------ utils.read_csv and encodings
Encodings == {"ascii", "utf-8", "latin-1"}

\* the bytes of a line: ASCII only, a multi-byte UTF-8 sequence, or a
\* Latin-1 byte that is not valid UTF-8
LineBytes == {"ascii", "utf8", "latin1"}

\* whether the bytes decode with the encoding: every byte is Latin-1
decodes(bytes, encoding) ==
  \/ encoding = "latin-1"
  \/ encoding = "utf-8" /\ bytes # "latin1"
  \/ encoding = "ascii" /\ bytes = "ascii"

\* the text the bytes decode to
decoded(bytes, encoding) == [bytes |-> bytes, encoding |-> encoding]

\* utils.detect_encoding: the encoding the detector finds in the bytes
detect_encoding(lines) ==
  IF \E k \in DOMAIN lines : lines[k] = "latin1" THEN "latin-1"
  ELSE IF \E k \in DOMAIN lines : lines[k] = "utf8" THEN "utf-8"
  ELSE "ascii"

\* the rows _read_csv yields from line k on: the DictReader decodes a line
\* when it is read, and a line that does not decode raises UnicodeDecodeError
\* out of the generator
RECURSIVE decode_from(_, _, _, _)
decode_from(lines, encoding, k, emitted) ==
  IF k > Len(lines) THEN returns(emitted)
  ELSE IF ~decodes(lines[k], encoding)
  THEN [raised |-> Some("UnicodeDecodeError"), value |-> emitted]
  ELSE decode_from(lines, encoding, k + 1,
                   Append(emitted, decoded(lines[k], encoding)))

\* what the call _read_csv(f, encoding, names) raises: nothing, as the body
\* of a generator function runs at the first next() and not at the call
read_csv_call_error(lines, encoding) == None

\* read_csv: the header is decoded with the declared encoding, the call of
\* _read_csv is tried and is called again with the detected encoding in the
\* handler of UnicodeDecodeError, and the rows are yielded outside the try
read_csv_decoded(lines, declared) ==
  IF lines = <<>> THEN returns(<<>>)
  ELSE IF ~decodes(lines[1], declared) THEN raises("UnicodeDecodeError")
  ELSE LET encoding ==
             IF read_csv_call_error(lines, declared) = Some("UnicodeDecodeError")
             THEN detect_encoding(lines) ELSE declared
       IN  decode_from(lines, encoding, 1, <<>>)

ReadCsvCalls ==
  {lib_call("read_csv", [encoded |-> ls, encoding |-> e]) :
     ls \in SeqsUpTo(MaxLines + 1, LineBytes), e \in Encodings}

\* list(read_csv(csv_filepath, encoding=e))
read_csv_call ==
  /\ lib.op = "read_csv" /\ ~lib.done
  /\ lib' = [lib EXCEPT !.done = TRUE,
                        !.ret = read_csv_decoded(lib.arg.encoded, lib.arg.encoding)]
  /\ lib_frame

\* ------------------- the kwargs of create_table in the upload routines
\* the two upload routines
Uploaders == {"datastorer.update_resource", "CKAN.update_datastore"}

\* the keyword arguments a caller can pass, each a pair of key and value
Options ==
  {<<"primary_key", "id">>, <<"aliases", "alias">>, <<"indexes", "id">>,
   <<"quiet", "yes">>, <<"encoding", "utf-8">>}

\* the keys of the first record of the file
FieldSets ==
  {{"id", "value"}, {"id", "primary_key"}, {"id", "quiet"}, {"encoding"}}

\* create_keys = ['aliases', 'primary_key', 'indexes']
create_keys == {"aliases", "primary_key", "indexes"}

\* the value of `keys` in the comprehension that makes create_kwargs: in
\* update_datastore the list of the three keys has been overwritten by
\* keys = first.keys()
keys_at_create(uploader, names) ==
  IF uploader = "CKAN.update_datastore" THEN names ELSE create_keys

\* {k: v for k, v in kwargs.items() if k in keys}
create_kwargs(uploader, kwargs, names) ==
  {kv \in kwargs : kv[1] \in keys_at_create(uploader, names)}

\* kwargs.get('primary_key')
primary_key_of(kwargs) ==
  IF \E kv \in kwargs : kv[1] = "primary_key" THEN Some("id") ELSE None

\* the kwargs of the create_table call and the method of the insert_records
\* call of the upload routine
upload_kwargs(uploader, kwargs, names) ==
  [create_kwargs |-> create_kwargs(uploader, kwargs, names),
   method |-> method_for(primary_key_of(kwargs))]

CreateKwargsCalls ==
  {lib_call("create_kwargs", [uploader |-> u, kwargs |-> kw, names |-> ns]) :
     u \in Uploaders, kw \in SUBSET Options, ns \in FieldSets}

create_kwargs_call ==
  /\ lib.op = "create_kwargs" /\ ~lib.done
  /\ lib' = [lib EXCEPT !.done = TRUE,
                        !.ret = upload_kwargs(lib.arg.uploader, lib.arg.kwargs,
                                              lib.arg.names)]
  /\ lib_frame

\* ------------------------- datastorer.update_resource on the lines of a file
\* the batches insert_records sends of the records of a generator that raises
\* after `rows`: the chunks that were complete before the error
complete_chunks(rows, chunksize) ==
  IF chunksize = 0 THEN <<>>
  ELSE chunk(SubSeq(rows, 1, (Len(rows) \div chunksize) * chunksize), chunksize, 0, None)

\* update_resource on what the reader yields: records.next() takes the first
\* record for the fields (StopIteration if there is none), and insert_records
\* sends the records after it in chunks; an error of the reader leaves
\* update_resource when the record is asked for
upload_records(out, chunksize) ==
  IF out.value = <<>>
  THEN [raised |-> IF out.raised # None THEN out.raised ELSE Some("StopIteration"),
        first |-> None, sent |-> <<>>]
  ELSE [raised |-> out.raised,
        first |-> Some(Head(out.value).line),
        sent |-> IF out.raised = None
                 THEN chunk(Tail(out.value), chunksize, 0, None)
                 ELSE complete_chunks(Tail(out.value), chunksize)]

UploadCalls ==
  {lib_call("upload", [csv |-> <<h>> \o ls, chunksize_rows |-> c]) :
     h \in Headers, ls \in SeqsUpTo(MaxLines, Lines), c \in ChunkRows}

\* update_resource(ckan, resource_id, filepath, chunksize_rows=c) on a csv file
upload_call ==
  /\ lib.op = "upload" /\ ~lib.done
  /\ \E out \in read_records("read_csv", lib.arg.csv) :
       lib' = [lib EXCEPT !.done = TRUE,
                          !.ret = upload_records(out, lib.arg.chunksize_rows)]
  /\ lib_frame

\* ------------------------------------------------ the library specification
LibCalls ==
  DeleteCalls \cup GetHashCalls \cup FetchCalls \cup CreateCalls \cup DsDeleteCalls
    \cup GenFieldsCalls \cup ReaderCalls \cup HashFileCalls
    \cup UpdateResourceCalls \cup ReadCsvCalls \cup CreateKwargsCalls
    \cup UploadCalls

InitLib ==
  /\ filestore = [rid \in Resources |-> <<>>]
  /\ package = [exists |-> FALSE, created |-> 0, resources |-> <<>>]
  /\ datastore = [rid \in Resources \cup HashResources |-> no_table]
  /\ tempfiles = {}
  /\ no_run
  /\ ipc = "idle"
  /\ ikwargs = [resource_id |-> Missing, method |-> "insert", chunksize |-> 0,
                start |-> 0, stop |-> None]
  /\ irecords = <<>> /\ i = <<>> /\ yielded = FALSE /\ count = 1
  /\ batches = <<>> /\ accepted = 0
  /\ ierror = None /\ iresult = None /\ iexc = None
  /\ lib \in LibCalls

NextLib ==
  \/ delete_table_call
  \/ get_hash_call
  \/ fetch_resource_call
  \/ create_resource_call
  \/ ds_delete_call
  \/ gen_fields_call
  \/ reader_call
  \/ hash_file_call
  \/ update_resource_call
  \/ read_csv_call
  \/ create_kwargs_call
  \/ upload_call

SpecLib == InitLib /\ [][NextLib]_vars

\* the call of `op` has ended
ended(op) == lib.op = op /\ lib.done

\* C11: delete_table returns None without raising when the remote rejects the
\* delete of a read-only table and when the table does not exist, and returns
\* the remote's result when the delete succeeds.
C11_DeleteTableSoft ==
  ended("delete_table") =>
    /\ lib.arg.response \in {read_only_response, not_found_response} =>
         lib.ret = returns(None)
    /\ lib.arg.response = deleted_response =>
         lib.ret = returns(Some(deleted_response.result))

\* delete_table of ckanutils/api.py has answered a read-only rejection
C11_Witness ==
  /\ ended("delete_table")
  /\ lib.arg.version = "ckanutils/api.py"
  /\ lib.arg.response = read_only_response
  /\ lib.ret.raised = None /\ lib.ret.value = None

\* C12: in delete_table of ckanutils/api.py a ValidationError of
\* datastore_delete whose error_dict has no 'read-only' key reaches the caller
\* as that same ValidationError.
C12_OtherErrorsPropagate ==
  ( /\ ended("delete_table")
    /\ lib.arg.version = "ckanutils/api.py"
    /\ lib.arg.response.type = "ValidationError"
    /\ ~has_key(lib.arg.response.error_dict, "read-only") ) =>
    lib.ret = raises(lib.arg.response)

\* the rows of the ledger table of the call that belong to its resource
rows_of_call ==
  SelectSeq(lib.arg.ledger.datastore[<<"hash", 1>>].records,
            LAMBDA row : row.datastore_id = lib.arg.resource_id)

\* C13: get_hash classifies its outcome by the state of the ledger: no package
\* raises NotFound with item 'package'; a package without a resource raises
\* NotFound with item 'resource'; a resource without a datastore table raises
\* NotFound with item 'datastore'; a table without a row for the resource id
\* returns None; a row returns its hash.
C13_GetHashClassifies ==
  ended("get_hash") =>
    LET pack == lib.arg.ledger.package
        table == lib.arg.ledger.datastore[<<"hash", 1>>]
    IN  /\ ~pack.exists => lib.ret = raises(NotFound(Some("package")))
        /\ (pack.exists /\ pack.resources = <<>>) =>
             lib.ret = raises(NotFound(Some("resource")))
        /\ (pack.resources # <<>> /\ ~table.exists) =>
             lib.ret = raises(NotFound(Some("datastore")))
        /\ (table.exists /\ rows_of_call = <<>>) => lib.ret = returns(None)
        /\ (table.exists /\ rows_of_call # <<>>) =>
             lib.ret = returns(Some(rows_of_call[1].hash))

\* C13 for the get_hash of ckanutils.py alone
C13_GetHashClassifiesNew ==
  (ended("get_hash") /\ lib.arg.version = "ckanutils.py") => C13_GetHashClassifies

\* the message has the resource id among the values put into its format
contains(message, resource_id) ==
  \E k \in DOMAIN message.values : message.values[k] = resource_id

\* C14: fetch_resource with a resource id the remote does not know raises
\* NotFound with a message that contains the id, whether resource_show reports
\* the absence with NotFound or with a ValidationError whose resource_id is
\* ['Not found: Resource'].
C14_FetchNotFound ==
  ( /\ ended("fetch_resource")
    /\ lib.arg.show \in {not_found_response, no_resource_response} ) =>
    /\ lib.ret.raised # None
    /\ lib.ret.raised[1].type = "NotFound"
    /\ contains(lib.ret.raised[1].message, lib.arg.resource_id)

\* C14 for the fetch_resource of ckanutils.py alone
C14_FetchNotFoundNew ==
  (ended("fetch_resource") /\ lib.arg.version = "ckanutils.py") => C14_FetchNotFound

\* the remote denies the download of the call
download_denied ==
  \/ lib.arg.status = 401
  \/ \E k \in DOMAIN lib.arg.history : forbidden(lib.arg.history[k])

\* C15: once the resource is found, fetch_resource raises NotAuthorized, and
\* returns no response, when the final response has status 401 or a response of
\* the redirect history carries a 403 marker in x-ckan-error; otherwise it
\* returns the response.
C15_FetchNotAuthorized ==
  (ended("fetch_resource") /\ lib.arg.show.type = "ok") =>
    IF download_denied
    THEN lib.ret.raised # None /\ lib.ret.raised[1].type = "NotAuthorized"
         /\ lib.ret.value = None
    ELSE lib.ret.raised = None /\ lib.ret.value # None

\* C15 for the fetch_resource of ckanutils.py alone
C15_FetchNotAuthorizedNew ==
  (ended("fetch_resource") /\ lib.arg.version = "ckanutils.py") =>
    C15_FetchNotAuthorized

\* C16 as stated: create_resource fails with TypeError, before any remote
\* call, when no payload kind is supplied and when more than one is supplied.
C16_ExactlyOnePayload ==
  (ended("create_resource") /\ Cardinality(lib.arg.kinds) # 1) =>
    lib.ret.raised = Some("TypeError") /\ lib.ret.requests = <<>>

\* C16 amended: create_resource fails with TypeError exactly when none of the
\* payload kinds its version recognises is supplied (url, filepath and fileobj
\* in ckanutils.py; url and filepath in ckanutils/api.py), and then it has
\* sent no request. With one or more of them supplied it raises no usage
\* error and sends one resource_create request, which uploads the file of
\* filepath, or else the fileobj, and carries the url when one is supplied.
C16_SomePayload ==
  ended("create_resource") =>
    LET kinds == lib.arg.kinds \cap recognised(lib.arg.version)
    IN  /\ kinds = {} => lib.ret.raised = Some("TypeError") /\ lib.ret.requests = <<>>
        /\ kinds # {} =>
             /\ lib.ret.raised = None
             /\ Len(lib.ret.requests) = 1
             /\ "url" \in kinds => lib.ret.requests[1].url = Some("url")
             /\ "filepath" \in kinds => lib.ret.requests[1].upload = Some("filepath")
             /\ ("fileobj" \in kinds /\ "filepath" \notin kinds) =>
                  lib.ret.requests[1].upload = Some("fileobj")

\* create_resource of ckanutils.py is given a url and a file path, and sends
\* its request
C16_Witness ==
  /\ ended("create_resource")
  /\ lib.arg.version = "ckanutils.py"
  /\ lib.arg.kinds = {"url", "filepath"}
  /\ lib.ret.raised = None /\ Len(lib.ret.requests) = 1

\* C17: REPLACE_SCHEMA. The run calls delete_table, on the target table and
\* before create_table, exactly when no primary key is configured: with a
\* primary key its calls hold no delete_table. The insert_records call on the
\* target table has method 'upsert' with a primary key and 'insert' without.
C17_ReplaceSchema ==
  /\ \A k \in DOMAIN calls :
       calls[k][1] = "delete_table" =>
         calls[k][2] = args.resource_id /\ args.primary_key = None
  /\ \A k \in DOMAIN calls :
       (calls[k][1] = "create_table" /\ calls[k][2] = args.resource_id) =>
         (args.primary_key = None <=>
            \E j \in 1..(k - 1) : calls[j][1] = "delete_table")
  /\ pc = "insert_records" =>
       /\ ikwargs.resource_id = args.resource_id
       /\ ikwargs.method = IF args.primary_key # None THEN "upsert" ELSE "insert"

\* a second run with a primary key that upserted into the table the first run
\* left, without a delete_table call
C17_Witness ==
  /\ pc = "insert_records" /\ ipc = "returned" /\ runs = 2
  /\ args.primary_key # None /\ ikwargs.method = "upsert"
  /\ accepted >= 1
  /\ ~called("delete_table") /\ called("create_table")

\* the command told its user that the operation could not be done
reported_failure(out) ==
  \/ out.stderr # <<>>
  \/ \E k \in DOMAIN out.stdout :
       out.stdout[k] \in {"Can't delete. Datastore table not found.",
                          "Can't delete. Datastore table is read only table."}

\* C18, for the ds.delete command: the command exits 0 when the table was
\* deleted and 1 whenever it reported an error; it never exits 0 after
\* reporting that the delete could not be done.
C18_ExitCodes ==
  ended("ds.delete") =>
    /\ lib.ret.deleted => lib.ret.exit_code = 0
    /\ reported_failure(lib.ret) => lib.ret.exit_code = 1

\* the name without the difference between upper and lower case
lower(name) ==
  [k \in DOMAIN name |->
     CASE name[k] = "Value" -> "value"
       [] name[k] = "DATE" -> "date"
       [] OTHER -> name[k]]

\* C19 as stated: one field per name, in order, with the name as id; without
\* type casting every field is text; with it a name containing 'value' in any
\* case is float, a name containing 'date' is timestamp, every other name is
\* text, so that [id, value, date] gives [text, float, timestamp].
C19_FieldTypes ==
  ended("gen_fields") =>
    LET names == lib.arg.names
        fields == lib.ret.value
    IN  /\ Len(fields) = Len(names)
        /\ \A k \in DOMAIN names :
             /\ fields[k].id = names[k]
             /\ ~lib.arg.type_cast => fields[k].type = "text"
             /\ lib.arg.type_cast =>
                  fields[k].type =
                    IF in_name("value", lower(names[k])) THEN "float"
                    ELSE IF in_name("date", names[k]) THEN "timestamp"
                    ELSE "text"

\* C19 amended: one field per name, in order, with the name as id; without
\* type casting every field is text; with it a name containing 'date' is typed
\* date, any other name containing 'value' is typed float (both compared with
\* the case as written), every other name is typed text, so that
\* [id, value, date] gives [text, float, date].
C19_FieldTypesAsWritten ==
  ended("gen_fields") =>
    LET names == lib.arg.names
        fields == lib.ret.value
    IN  /\ Len(fields) = Len(names)
        /\ \A k \in DOMAIN names :
             /\ fields[k].id = names[k]
             /\ ~lib.arg.type_cast => fields[k].type = "text"
             /\ lib.arg.type_cast =>
                  fields[k].type =
                    IF in_name("date", names[k]) THEN "date"
                    ELSE IF in_name("value", names[k]) THEN "float"
                    ELSE "text"
        /\ (lib.arg.type_cast /\ names = << <<"id">>, <<"value">>, <<"date">> >>) =>
             fields = <<[id |-> <<"id">>, type |-> "text"],
                        [id |-> <<"value">>, type |-> "float"],
                        [id |-> <<"date">>, type |-> "date"]>>

\* gen_fields with type casting on the names id, value, date
C19_Witness ==
  /\ ended("gen_fields") /\ lib.arg.type_cast
  /\ lib.arg.names = << <<"id">>, <<"value">>, <<"date">> >>
  /\ Len(lib.ret.value) = 3 /\ lib.ret.value[3].type = "date"

\* the line has text in a column whose header name is not blank
has_named_text(header, line) ==
  \E c \in DOMAIN header :
    ~blank(header[c]) /\ c <= Len(line) /\ ~blank(line[c])

\* the numbers of the lines of the file that are not entirely empty across
\* the named columns, in file order
RECURSIVE nonempty_lines(_, _)
nonempty_lines(lines, k) ==
  IF k > Len(lines) THEN <<>>
  ELSE (IF has_named_text(lines[1], lines[k]) THEN <<k>> ELSE <<>>)
         \o nonempty_lines(lines, k + 1)

\* C20: the reader drops every row whose values are all empty or whitespace
\* across the named columns and emits every other row, in file order: the
\* rows it emits are exactly the lines with text in a named column.
C20_DropsEmptyRows ==
  ended("reader") =>
    /\ lib.ret.raised = None
    /\ [k \in DOMAIN lib.ret.value |-> lib.ret.value[k].line]
         = nonempty_lines(lib.arg.lines, 1)

\* C20 for files whose header has no blank name and whose lines have as many
\* cells as the header
C20_DropsEmptyRowsRegular ==
  ( /\ ended("reader")
    /\ names_of(lib.arg.lines[1]) = lib.arg.lines[1]
    /\ \A k \in DOMAIN lib.arg.lines :
         Len(lib.arg.lines[k]) = Len(lib.arg.lines[1]) ) =>
    C20_DropsEmptyRows

\* the column of the header that holds the j-th name that is not blank
column_of(header, j) ==
  CHOOSE c \in DOMAIN header :
    /\ ~blank(header[c])
    /\ Cardinality({d \in 1..c : ~blank(header[d])}) = j

\* C21: the reader drops the columns without a name: every record it emits
\* has exactly the names of the header that are not blank as keys, and each
\* of them with the value of the row in that name's own column.
C21_DropsEmptyColumns ==
  ended("reader") =>
    \A k \in DOMAIN lib.ret.value :
      LET header == lib.arg.lines[1]
          line == lib.arg.lines[lib.ret.value[k].line]
          values == lib.ret.value[k].values
      IN  /\ Len(values) = Len(names_of(header))
          /\ \A j \in DOMAIN values :
                /\ column_of(header, j) <= Len(line)
                /\ values[j] = line[column_of(header, j)]

\* C21 for the lines that have as many cells as the header, under a header
\* whose names are all set
C21_KeepsNamedColumns ==
  ( /\ ended("reader")
    /\ names_of(lib.arg.lines[1]) = lib.arg.lines[1]
    /\ \A k \in DOMAIN lib.arg.lines :
         Len(lib.arg.lines[k]) = Len(lib.arg.lines[1]) ) =>
    C21_DropsEmptyColumns

\* C22: hash_file does not depend on the chunk size: the chunks fed to the
\* hasher, put together in order, are the bytes of the file, the digest is
\* the digest hash_file gives with every other chunksize, the loop ends, and
\* the file is left as it was.
C22_ChunkIndependent ==
  ended("hash_file") =>
    /\ Flatten(lib.ret.fed) = lib.arg.bytes
    /\ \A c \in 0..(MaxBytes + 1) : hash_file(lib.arg.bytes, c) = lib.ret.value
    /\ lib.ret.value = hash_update(1, lib.arg.bytes)
    /\ lib.ret.file = lib.arg.bytes

\* a file of more bytes than the chunksize was hashed in several reads, the
\* last one shorter than the chunksize
C22_Witness ==
  /\ ended("hash_file")
  /\ lib.arg.chunksize = 2
  /\ Len(lib.arg.bytes) = 3
  /\ Len(lib.ret.fed) = 2

\* neither the extension of the file nor its content type has a parser
no_parser(extension, content_type) ==
  /\ extension = None \/ ~has_parser(extension[1])
  /\ ~ctype_known(content_type[2])

\* C23: when neither the extension nor the content type of the file matches
\* a parser, or the file has no rows, the upload fails with an error the
\* caller gets and calls neither delete_table, create_table nor
\* insert_records.
C23_ParseErrorNoCalls ==
  ( /\ ended("update_resource")
    /\ \/ no_parser(lib.arg.extension, lib.arg.content_type)
       \/ lib.arg.file = <<>> ) =>
    /\ lib.ret.raised # None \/ lib.ret.value = Some(FALSE)
    /\ lib.ret.calls = <<>>

\* C23 for the files with an extension, and for the files without rows
C23_ParseErrorWithExtension ==
  ( /\ ended("update_resource")
    /\ lib.arg.extension # None \/ lib.arg.file = <<>>
    /\ \/ no_parser(lib.arg.extension, lib.arg.content_type)
       \/ lib.arg.file = <<>> ) =>
    /\ lib.ret.raised # None
    /\ lib.ret.calls = <<>>

\* the records of the file decoded with the encoding
all_decoded(lines, encoding) ==
  [k \in DOMAIN lines |-> decoded(lines[k], encoding)]

\* C24: read_csv recovers from a wrong declared encoding: when the file does
\* not decode with the declared encoding and decodes with the detected one,
\* the caller gets the records decoded with the detected encoding, and no
\* error.
C24_EncodingRetry ==
  ( /\ ended("read_csv")
    /\ \E k \in DOMAIN lib.arg.encoded : ~decodes(lib.arg.encoded[k], lib.arg.encoding) ) =>
    /\ lib.ret.raised = None
    /\ lib.ret.value = all_decoded(lib.arg.encoded, detect_encoding(lib.arg.encoded))

\* a file that decodes with the declared encoding is read with it
C24_DeclaredEncoding ==
  ( /\ ended("read_csv")
    /\ \A k \in DOMAIN lib.arg.encoded : decodes(lib.arg.encoded[k], lib.arg.encoding) ) =>
    /\ lib.ret.raised = None
    /\ lib.ret.value = all_decoded(lib.arg.encoded, lib.arg.encoding)

\* the fetch of the run failed with NotFound or NotAuthorized: the error is
\* the first thing the run wrote to standard error
fetch_failed ==
  stderr # <<>> /\ stderr[1] \in {"NotFound", "NotAuthorized"}

\* C25: when the fetch of the resource fails with NotFound or NotAuthorized
\* the run is at its end at once: it has written that error and nothing else
\* to standard error, its exit code is 1, and it has looked up no hash, made
\* no call that creates the ledger, no delete_table, create_table or
\* insert_records call and no ledger write.
C25_FetchFailureEnds ==
  fetch_failed =>
    /\ pc = "done" /\ exit_code = Some(1)
    /\ Len(stderr) = 1
    /\ calls = <<>>
    /\ old_hash = None /\ new_hash = None
    /\ ipc = "idle" /\ batches = <<>>

\* a second run, with the ledger in place, on a resource the remote does
\* not know
C25_Witness ==
  /\ pc = "done" /\ runs = 2
  /\ stderr = <<"NotFound">> /\ exit_code = Some(1)
  /\ package.exists /\ hash_table.exists

\* the k-th call of the run is the call `name` on the target table
on_target(k, name) ==
  calls[k][1] = name /\ calls[k][2] = args.resource_id

\* C26: the remote calls of one upload are in a fixed order: delete_table on
\* the target comes before create_table, create_table before every
\* datastore_upsert batch, the ledger write (update_hash_table) after the
\* last batch; and no batch is sent when create_table raised.
C26_CallOrder ==
  /\ \A j, k \in DOMAIN calls :
       (on_target(j, "delete_table") /\ on_target(k, "create_table")) => j < k
  /\ \A k \in DOMAIN calls :
       on_target(k, "datastore_upsert") =>
         \E j \in 1..(k - 1) : on_target(j, "create_table") /\ calls[j][3] = None
  /\ \A j, k \in DOMAIN calls :
       (calls[j][1] = "update_hash_table" /\ on_target(k, "datastore_upsert")) => k < j
  /\ called("update_hash_table") =>
       (pc \in {"update_hash_table", "done"} /\ updated)
  /\ (\E j \in DOMAIN calls : on_target(j, "create_table") /\ calls[j][3] # None) =>
       ~\E k \in DOMAIN calls : on_target(k, "datastore_upsert")

\* a run that deleted the table, created it, sent a batch and wrote the
\* ledger, in this order
C26_Witness ==
  /\ pc = "done" /\ exit_code = Some(0)
  /\ \E a, b, c, d \in DOMAIN calls :
       /\ a < b /\ b < c /\ c < d
       /\ on_target(a, "delete_table") /\ on_target(b, "create_table")
       /\ on_target(c, "datastore_upsert") /\ calls[d][1] = "update_hash_table"

\* C27: the upload routine passes the table options of the caller to
\* create_table as they are: the call gets the primary_key, aliases and
\* indexes the caller configured, with their values, and no other option;
\* so the method is 'upsert' only when the table was created with the
\* primary key.
C27_CreateOptions ==
  ended("create_kwargs") =>
    /\ lib.ret.create_kwargs = {kv \in lib.arg.kwargs : kv[1] \in create_keys}
    /\ lib.ret.method = "upsert" =>
         <<"primary_key", "id">> \in lib.ret.create_kwargs

\* C27 for datastorer.update_resource
C27_CreateOptionsDatastorer ==
  (ended("create_kwargs") /\ lib.arg.uploader = "datastorer.update_resource") =>
    C27_CreateOptions

\* the upload of the run was cut by a 'Broken pipe' error, and insert_records
\* has just returned
upload_aborted ==
  /\ pc = "insert_records" /\ ipc = "returned"
  /\ ierror = Some(BrokenPipeError)

\* the batches the remote accepted before the one that failed
accepted_batches == SubSeq(batches, 1, accepted)

\* the delete_table call of the run removed the target table, or found none
table_deleted ==
  \E k \in DOMAIN calls :
    /\ on_target(k, "delete_table")
    /\ calls[k][3] \in {None, Some("NotFound")}

\* C28 as stated: when 'Broken pipe' cuts the upload at batch k the call
\* returns 0, the k - 1 batches before it are in the table, and without a
\* primary key the table holds those k - 1 batches and nothing else.
C28_AbortKeepsOnlyBatches ==
  upload_aborted =>
    /\ iresult = Some(0)
    /\ Len(batches) = accepted + 1
    /\ \A j \in 1..accepted : \A r \in DOMAIN batches[j] :
         \E n \in DOMAIN datastore[args.resource_id].records :
           datastore[args.resource_id].records[n] = batches[j][r]
    /\ args.primary_key = None =>
         datastore[args.resource_id].records = Flatten(accepted_batches)

\* C28, amended: when 'Broken pipe' cuts the upload at batch k the call
\* returns 0 and the k - 1 batches before it are in the table; without a
\* primary key the table holds those k - 1 batches and nothing else when
\* delete_table removed the table or found none, and it holds its previous
\* rows followed by those batches when delete_table was refused.
C28_AbortNotAtomic ==
  upload_aborted =>
    /\ iresult = Some(0)
    /\ Len(batches) = accepted + 1
    /\ \A j \in 1..accepted : \A r \in DOMAIN batches[j] :
         \E n \in DOMAIN datastore[args.resource_id].records :
           datastore[args.resource_id].records[n] = batches[j][r]
    /\ (args.primary_key = None /\ table_deleted) =>
         datastore[args.resource_id].records = Flatten(accepted_batches)
    /\ (args.primary_key = None /\ ~table_deleted) =>
         \E n \in 0..Len(datastore[args.resource_id].records) :
           SubSeq(datastore[args.resource_id].records, n + 1,
                  Len(datastore[args.resource_id].records)) = Flatten(accepted_batches)

\* a second run without primary key deleted the table of the first run and
\* was cut at its second batch: the table holds the first batch only
C28_Witness ==
  /\ upload_aborted
  /\ runs = 2 /\ args.primary_key = None /\ table_deleted
  /\ accepted = 1 /\ Len(batches) = 2
  /\ datastore[args.resource_id].records = batches[1]
  /\ called("delete_table") /\ calls[1][3] = None

\* the numbers of the lines of the records sent, batch after batch
sent_lines(sent) ==
  [k \in DOMAIN Flatten(sent) |-> Flatten(sent)[k].line]

\* C29: update_resource uploads the data rows of the file: the first record
\* of the reader, the header row, goes to the schema and is not sent, and
\* every row after it that is not empty is sent once, in file order, across
\* the batches; a file with a header only sends no record.
C29_UploadsDataRows ==
  ended("upload") =>
    /\ lib.ret.raised = None
    /\ lib.ret.first = Some(1)
    /\ sent_lines(lib.ret.sent) = nonempty_lines(lib.arg.csv, 2)

\* C29 for the files whose header has no blank name and whose lines have as
\* many cells as the header
C29_UploadsRegularRows ==
  ( /\ ended("upload")
    /\ names_of(lib.arg.csv[1]) = lib.arg.csv[1]
    /\ \A k \in DOMAIN lib.arg.csv : Len(lib.arg.csv[k]) = Len(lib.arg.csv[1]) ) =>
    C29_UploadsDataRows

\* C30: running again is a no-op: a run with force false that follows at
\* once a run on the same resource that ended with exit code 0, the file
\* being as that run found it, makes no remote write (no delete_table,
\* create_table, datastore_upsert, package or resource creation) and, when
\* the file is fetched, ends with exit code 0.
C30_RerunNoOp ==
  (rerun /\ ~(pc = "done" /\ filepath = None)) =>
    /\ calls = <<>>
    /\ pc = "done" => exit_code = Some(0)

\* a run that ended with exit code 0 left the hash of the file it fetched in
\* the ledger, unless the remote cut the ledger write with 'Broken pipe'
C30_SuccessLeavesHash ==
  ( /\ pc = "done" /\ exit_code = Some(0)
    /\ ~(ierror = Some(BrokenPipeError) /\ ikwargs.resource_id \in HashResources) ) =>
    stored_hash(args.resource_id) = Some(hash_file(resp, CHUNKSIZE_BYTES))

====
